---------------------------- MODULE Spec2Model ----------------------------
(***************************************************************************)
(* EPHETZNER: the backup-then-delete workflow.                             *)
(*                                                                         *)
(*   services/s3.py      S3BackupService.create_backup / verify_backup     *)
(*   commands/delete.py  the delete command that runs them before          *)
(*                       provider.delete_server                            *)
(*                                                                         *)
(* Text is a sequence of one-character strings, so that parsing and        *)
(* formatting of prefixes, keys and locations is computed, not assumed.    *)
(***************************************************************************)
EXTENDS Integers, Sequences, FiniteSets, TLC

(***************************************************************************)
(* Bounds of the model.                                                    *)
(***************************************************************************)
\* longest body of a destination prefix / location typed by a caller
MaxLen == 3
\* longest archive payload (bytes) the remote tar produces
MaxPayload == 2

(***************************************************************************)
(* Text helpers (Python str operations used by services/s3.py).            *)
(***************************************************************************)
\* Optional[str] None
None == <<"<None>">>

\* "not value" of Python for an Optional[str]
Falsy(value) ==
    value = None \/ value = <<>>

\* str.startswith
StartsWith(s, p) ==
    Len(s) >= Len(p) /\ SubSeq(s, 1, Len(p)) = p

\* str.find for a set of characters, searching from position from (1-based);
\* 0 when none occurs
FindAny(s, chars, from) ==
    LET hits == {i \in from..Len(s) : s[i] \in chars}
    IN  IF hits = {} THEN 0 ELSE CHOOSE i \in hits : \A j \in hits : i <= j

\* s[from:] of Python, 1-based
Tail_from(s, from) ==
    SubSeq(s, from, Len(s))

\* str.lstrip("/")
RECURSIVE lstrip_slash(_)
lstrip_slash(s) ==
    IF s # <<>> /\ Head(s) = "/" THEN lstrip_slash(Tail(s)) ELSE s

\* str.rstrip("/")
RECURSIVE rstrip_slash(_)
rstrip_slash(s) ==
    IF s # <<>> /\ s[Len(s)] = "/" THEN rstrip_slash(SubSeq(s, 1, Len(s) - 1)) ELSE s

\* str.lower on the characters the model uses
LowerChar(c) ==
    IF c = "S" THEN "s" ELSE IF c = "H" THEN "h" ELSE c

Lower(s) ==
    [i \in 1..Len(s) |-> LowerChar(s[i])]

Letters == {"s", "S", "h", "H", "b", "k", "a"}

SchemeChars == Letters \cup {"3", "+", "-", "."}

\* urllib.parse.urlparse: scheme, netloc and path of a URL.  The scheme is
\* the text before the first ":" when it starts with a letter and holds only
\* scheme characters (lower-cased); the netloc follows "//" and ends at the
\* first "/", "?" or "#"; the path ends at "#" or "?".
urlparse(url) ==
    LET i         == FindAny(url, {":"}, 1)
        hasScheme == /\ i > 1
                     /\ url[1] \in Letters
                     /\ \A j \in 1..(i - 1) : url[j] \in SchemeChars
        scheme    == IF hasScheme THEN Lower(SubSeq(url, 1, i - 1)) ELSE <<>>
        rest      == IF hasScheme THEN Tail_from(url, i + 1) ELSE url
        hasNetloc == StartsWith(rest, <<"/", "/">>)
        d         == FindAny(rest, {"/", "?", "#"}, 3)
        netloc    == IF ~hasNetloc THEN <<>>
                     ELSE IF d = 0 THEN Tail_from(rest, 3)
                     ELSE SubSeq(rest, 3, d - 1)
        rest2     == IF ~hasNetloc THEN rest
                     ELSE IF d = 0 THEN <<>>
                     ELSE Tail_from(rest, d)
        f         == FindAny(rest2, {"#"}, 1)
        rest3     == IF f = 0 THEN rest2 ELSE SubSeq(rest2, 1, f - 1)
        q         == FindAny(rest3, {"?"}, 1)
        path      == IF q = 0 THEN rest3 ELSE SubSeq(rest3, 1, q - 1)
    IN  [scheme |-> scheme, netloc |-> netloc, path |-> path]

(***************************************************************************)
(* Exceptions.  An exception is a record of its class and its message.     *)
(***************************************************************************)
NoError == [cls |-> "none", msg |-> <<>>]

Raise(cls, msg) ==
    [cls |-> cls, msg |-> msg]

(***************************************************************************)
(* Static helpers of S3BackupService.                                      *)
(***************************************************************************)
S3Scheme == <<"s", "3", ":", "/", "/">>

\* _parse_destination_prefix: (bucket, key_prefix) or ValueError
_parse_destination_prefix(prefix) ==
    IF Falsy(prefix)
    THEN [err |-> Raise("ValueError", <<"Destination prefix must include the target bucket">>),
          bucket |-> <<>>, key_prefix |-> <<>>]
    ELSE LET parsed == urlparse(prefix)
             slash  == FindAny(prefix, {"/"}, 1)
             bucket == IF StartsWith(prefix, S3Scheme) THEN parsed.netloc
                       ELSE IF slash = 0 THEN prefix
                       ELSE SubSeq(prefix, 1, slash - 1)
             key_prefix == IF StartsWith(prefix, S3Scheme) THEN lstrip_slash(parsed.path)
                           ELSE IF slash = 0 THEN <<>>
                           ELSE Tail_from(prefix, slash + 1)
         IN  IF bucket = <<>>
             THEN [err |-> Raise("ValueError", <<"S3 bucket name missing in destination prefix">>),
                   bucket |-> <<>>, key_prefix |-> <<>>]
             ELSE [err |-> NoError, bucket |-> bucket, key_prefix |-> key_prefix]

\* the key built without stripping the prefix
_build_s3_key_unstripped(prefix, archive_name) ==
    IF prefix # <<>>
    THEN prefix \o <<"/">> \o archive_name
    ELSE archive_name

\* _build_s3_key
_build_s3_key(prefix, archive_name) ==
    IF prefix # <<>>
    THEN rstrip_slash(prefix) \o <<"/">> \o archive_name
    ELSE archive_name

\* the f-string of create_backup that renders the result's location
format_location(bucket, key) ==
    S3Scheme \o bucket \o <<"/">> \o key

\* the location parsed without the check of the key
_parse_backup_location_any_key(location) ==
    LET parsed == urlparse(location)
        key    == lstrip_slash(parsed.path)
    IN  IF parsed.scheme # <<"s", "3">> \/ parsed.netloc = <<>>
        THEN [err |-> Raise("ValueError", <<"Unsupported backup location">> \o location),
              bucket |-> <<>>, key |-> <<>>]
        ELSE [err |-> NoError, bucket |-> parsed.netloc, key |-> key]

\* _parse_backup_location: (bucket, key) or ValueError
_parse_backup_location(location) ==
    LET parsed == urlparse(location)
        key    == lstrip_slash(parsed.path)
    IN  IF parsed.scheme # <<"s", "3">> \/ parsed.netloc = <<>>
        THEN [err |-> Raise("ValueError", <<"Unsupported backup location">> \o location),
              bucket |-> <<>>, key |-> <<>>]
        ELSE IF key = <<>>
        THEN [err |-> Raise("ValueError", <<"Missing object key in backup location">> \o location),
              bucket |-> <<>>, key |-> <<>>]
        ELSE [err |-> NoError, bucket |-> parsed.netloc, key |-> key]

(***************************************************************************)
(* Content hashing.  hashlib.sha256 is a fixed deterministic digest of a   *)
(* byte stream; it is represented by an 8-bit mixing digest rendered as    *)
(* two hexadecimal digits.  Both users feed it chunk by chunk.             *)
(***************************************************************************)
\* bytes read per handle.read / body.read call (1024 * 1024 in the source,
\* scaled to the payload sizes of the model)
ChunkSize == 2

HexDigits == <<"0", "1", "2", "3", "4", "5", "6", "7",
               "8", "9", "a", "b", "c", "d", "e", "f">>

\* sha256(): the state of a fresh digest
sha256_new == 7

\* digest.update(chunk)
RECURSIVE digest_update(_, _)
digest_update(h, chunk) ==
    IF chunk = <<>> THEN h
    ELSE digest_update((h * 31 + Head(chunk) + 1) % 256, Tail(chunk))

\* digest.hexdigest()
hexdigest(h) ==
    <<HexDigits[(h \div 16) + 1], HexDigits[(h % 16) + 1]>>

\* for chunk in iter(lambda: stream.read(ChunkSize), b""): digest.update(chunk)
RECURSIVE read_chunks(_, _)
read_chunks(h, data) ==
    IF data = <<>> THEN h
    ELSE LET n == IF Len(data) < ChunkSize THEN Len(data) ELSE ChunkSize
         IN  read_chunks(digest_update(h, SubSeq(data, 1, n)), Tail_from(data, n + 1))

\* _compute_checksum
_compute_checksum(data) ==
    hexdigest(read_chunks(sha256_new, data))

(***************************************************************************)
(* Values the environment and the callers draw from.                       *)
(***************************************************************************)
Alphabet == {"b", "k", "/"}

RECURSIVE StringsUpTo(_)
StringsUpTo(n) ==
    IF n = 0 THEN {<<>>}
    ELSE LET shorter == StringsUpTo(n - 1)
         IN  shorter \cup {Append(s, c) : s \in {t \in shorter : Len(t) = n - 1}, c \in Alphabet}

\* destination prefixes a caller may pass: bare or with the s3:// scheme
Prefixes ==
    {None} \cup {scheme \o body : scheme \in {<<>>, S3Scheme}, body \in StringsUpTo(MaxLen)}

ArchiveNames == {<<"a">>}

RemotePaths == {<<"/">>, <<"/", "v", "/">>}

IPv4Values == {None, <<>>, <<"1">>}

KeyValues == {None, <<>>, <<"K">>}

\* archives the remote tar may produce: n bytes 1..n
TarOutputs == {[i \in 1..n |-> i] : n \in 1..MaxPayload}

\* what a failed or interrupted tar may leave at the archive path
PartialArchive == <<9>>

ExitCodes == {1, 2}

StderrTexts == {<<"tar: permission denied">>, <<>>}

\* classes of the exceptions third-party calls (paramiko, boto3, the file
\* system) raise: an arbitrary Exception subclass, or NotImplementedError,
\* which the delete command handles apart
ExcClasses == {"Exception", "NotImplementedError"}

Requests ==
    [ipv4 : IPv4Values, remote_path : RemotePaths,
     archive_name : ArchiveNames, destination_prefix : Prefixes]

NoRequest ==
    [ipv4 |-> None, remote_path |-> <<>>, archive_name |-> <<>>, destination_prefix |-> None]

NoFile == <<"<absent>">>

\* the bucket holds an older object when the service is constructed
InitialStorage == {[bucket |-> <<"b">>, key |-> <<"k">>, data |-> <<1>>]}

NoResult == [location |-> <<>>, checksum |-> <<>>, size_bytes |-> 0]

TmpDir == <<"/", "t", "m", "p", "/">>

(***************************************************************************)
(* State.                                                                  *)
(***************************************************************************)
VARIABLES
    access_key,     \* S3BackupService._access_key
    secret_key,     \* S3BackupService._secret_key
    pc,             \* position inside create_backup / verify_backup
    request,        \* the BackupRequest of the running create_backup
    cb,             \* locals of create_backup
    ssh_open,       \* the paramiko session is established and not closed
    cleanup,        \* how the two suppressed calls of the finally clause ended
    remote_files,   \* files on the remote host: set of [path, data]
    staging,        \* the TemporaryDirectory and the local archive in it
    storage,        \* object storage: set of [bucket, key, data]
    calls,          \* every call made on the ssh client and the s3 client, in order
    cb_outcome,     \* how create_backup ended
    vb,             \* argument and locals of verify_backup
    vb_outcome,     \* how verify_backup ended
    tampered,       \* the stored object was changed by another party after the upload
    dpc,            \* position inside the delete command ("off": not running)
    cmd,            \* state of the delete command
    cloud,          \* HetznerCloudProvider: its client and the account's servers
    ssh_run,        \* argument, locals and calls of ParamikoSSHService.run
    dns,            \* argument, locals and requests of DuckDNSProvider.update_record
    conf,           \* sources, locals and result of AppConfig.from_sources
    hz,             \* HetznerCloudProvider.create_server / delete_server: account, locals, calls
    crt             \* position and locals of the create command

ext_vars == <<conf, hz, crt>>

aux_vars == <<ssh_run, dns, ext_vars>>

svc_vars == <<access_key, secret_key, pc, request, cb, ssh_open, cleanup, remote_files,
              staging, storage, calls, cb_outcome, vb, vb_outcome, tampered>>

vars == <<access_key, secret_key, pc, request, cb, ssh_open, cleanup, remote_files,
          staging, storage, calls, cb_outcome, vb, vb_outcome, tampered, dpc, cmd, cloud, aux_vars>>

NoLocals ==
    [bucket |-> <<>>, key_prefix |-> <<>>, remote_archive |-> <<>>, key |-> <<>>,
     checksum |-> <<>>, size_bytes |-> 0, exit_code |-> -1, error_output |-> <<>>,
     pending |-> NoError]

NoStaging == [dir |-> FALSE, file |-> NoFile]

NoCleanup == [rm |-> "none", close |-> "none"]

NoOutcome == [kind |-> "none", result |-> NoResult, error |-> NoError]

NoVerify ==
    [result |-> NoResult, bucket |-> <<>>, key |-> <<>>, error_code |-> "",
     body |-> NoFile, content_length |-> 0]

NoVerdict == [kind |-> "none", value |-> FALSE, error |-> NoError]

NoServer ==
    [identifier |-> <<>>, name |-> <<>>, ipv4 |-> None, label_type |-> "none"]

\* BackupOptions(enabled=False, remote_path=None, destination_prefix=None)
NoBackup ==
    [enabled |-> FALSE, remote_path |-> None, destination_prefix |-> None]

NoCommand ==
    [server_id |-> None, skip_backup |-> FALSE, server |-> NoServer,
     backup_opts |-> NoBackup, delete_calls |-> <<>>, exit_code |-> -1,
     asked_backup |-> FALSE, confirmed |-> "unasked"]

NoCloud ==
    [has_client |-> FALSE, servers |-> <<>>, delete_requests |-> <<>>]

\* ParamikoSSHService.run was not called
NoRun ==
    [pc |-> "idle", command |-> <<>>, cmd |-> <<>>, calls |-> <<>>, session |-> "none",
     streams |-> FALSE, stdout |-> <<>>, stderr |-> <<>>, exit_code |-> -1,
     output |-> <<>>, error_output |-> <<>>, pending |-> NoError,
     outcome |-> [kind |-> "none", value |-> <<>>, error |-> NoError]]

\* DuckDNSProvider.update_record was not called
NoUpdate ==
    [pc |-> "idle", host |-> <<>>, ipv4 |-> None, params |-> <<>>, requests |-> <<>>,
     text |-> <<>>, failure |-> "none",
     outcome |-> [kind |-> "none", error |-> NoError]]

\* AppConfig.from_sources was not called
NoConfig ==
    [pc |-> "idle", ini |-> [exists |-> FALSE, readable |-> FALSE, options |-> {}],
     env |-> <<>>, merged |-> <<>>, env_config |-> <<>>, i |-> 0, result |-> <<>>]

\* HetznerCloudProvider between calls; has_key_api: the client has an
\* ssh_keys attribute; keys: the SSH keys stored in the account; ssh_key:
\* the key _ensure_ssh_key returned, empty for None
NoProvider ==
    [pc |-> "idle", has_key_api |-> FALSE, keys |-> <<>>, keys_before |-> <<>>,
     request |-> [name |-> <<>>, ssh_public_key |-> None, ipv4 |-> None], server_id |-> <<>>,
     listed |-> <<>>, ssh_key |-> <<>>, resource |-> NoServer,
     key_calls |-> <<>>, server_calls |-> <<>>,
     outcome |-> [kind |-> "none", server |-> NoServer, error |-> NoError]]

\* the create command is not running
NoCreate ==
    [pc |-> "off", duckdns_token |-> None,
     duckdns_options |-> [enabled |-> FALSE, hostname |-> None],
     server |-> NoServer, warned |-> FALSE, exit_code |-> -1]

\* the state of the service after S3BackupService.__init__
ServiceInit ==
    /\ access_key \in KeyValues
    /\ secret_key \in KeyValues
    /\ pc = "idle"
    /\ request = NoRequest
    /\ cb = NoLocals
    /\ ssh_open = FALSE
    /\ cleanup = NoCleanup
    /\ remote_files = {}
    /\ staging = NoStaging
    /\ storage = InitialStorage
    /\ calls = <<>>
    /\ cb_outcome = NoOutcome
    /\ vb = NoVerify
    /\ vb_outcome = NoVerdict
    /\ tampered = FALSE

Init ==
    /\ ServiceInit
    /\ dpc = "off"
    /\ cmd = NoCommand
    /\ cloud = NoCloud
    /\ ssh_run = NoRun
    /\ dns = NoUpdate
    /\ conf = NoConfig
    /\ hz = NoProvider
    /\ crt = NoCreate

\* nothing is running and the backup service was given no credentials
InitIdle ==
    /\ Init
    /\ access_key = None
    /\ secret_key = None

(***************************************************************************)
(* The collaborators' state changes.                                       *)
(***************************************************************************)
\* the remote file system after a command wrote data at path
remote_write(files, path, data) ==
    {f \in files : f.path # path} \cup {[path |-> path, data |-> data]}

\* the remote file system after rm -f path ran
remote_remove(files, path) ==
    {f \in files : f.path # path}

\* the fake and the real upload_file: the object at (bucket, key) is replaced
storage_put(objects, bucket, key, data) ==
    {o \in objects : ~(o.bucket = bucket /\ o.key = key)}
        \cup {[bucket |-> bucket, key |-> key, data |-> data]}

storage_has(objects, bucket, key) ==
    \E o \in objects : o.bucket = bucket /\ o.key = key

storage_get(objects, bucket, key) ==
    (CHOOSE o \in objects : o.bucket = bucket /\ o.key = key).data

\* create_backup goes on to its next step with its locals updated
goto(next, locals) ==
    /\ pc' = next
    /\ cb' = locals
    /\ UNCHANGED cb_outcome

\* an exception leaves create_backup
raise_from_create(error) ==
    /\ pc' = "cb_raised"
    /\ cb_outcome' = [kind |-> "raised", result |-> NoResult, error |-> error]
    /\ UNCHANGED cb

\* a step's exception leaves create_backup at once: no finally clause
fail_without_finally(error) ==
    /\ pc' = "cb_raised"
    /\ cb_outcome' = [kind |-> "raised", result |-> NoResult, error |-> error]
    /\ cb' = [cb EXCEPT !.pending = error]

\* a step failed inside the try block of lines 71-87: the exception is in
\* flight and control is at the finally clause of line 88
fail_into_finally(error) ==
    goto("cb_cleanup", [cb EXCEPT !.pending = error])

Call(op, arg) ==
    [op |-> op, arg |-> arg]

\* the command line _execute_remote_tar formats
tar_command(remote_archive, remote_path) ==
    LET stripped == rstrip_slash(remote_path)
        source   == IF stripped = <<>> THEN <<"/">> ELSE stripped
    IN  <<"sudo tar czf ">> \o remote_archive \o <<" -C ">> \o source \o <<" .">>

\* the remote delete names the directory instead of the archive
rm_command_of_directory(remote_archive) ==
    <<"rm -f ">> \o TmpDir

\* the command line _execute_cleanup formats
rm_command(remote_archive) ==
    <<"rm -f ">> \o remote_archive

\* the exit status of tar is not looked at
tar_exit_ignored(exit_code, error_output) ==
    goto("cb_sftp", [cb EXCEPT !.exit_code = exit_code, !.error_output = error_output])

\* lines 163-165 of _execute_remote_tar: a non-zero exit status raises a
\* RuntimeError that carries the exit code and the text read from stderr
tar_failed(exit_code, error_output) ==
    goto("cb_cleanup",
         [cb EXCEPT !.exit_code = exit_code,
                    !.error_output = error_output,
                    !.pending = Raise("RuntimeError",
                        <<"Remote archive command failed", ToString(exit_code)>> \o error_output)])

(***************************************************************************)
(* S3BackupService.create_backup, one action per blocking step.            *)
(***************************************************************************)
\* the preconditions without the check of the server address
CreateBackupValidate_NoAddressCheck ==
    /\ pc = "cb_validate"
    /\ LET parsed == _parse_destination_prefix(request.destination_prefix)
       IN  IF Falsy(access_key) \/ Falsy(secret_key)
           THEN raise_from_create(Raise("RuntimeError", <<"S3 credentials are not configured">>))
           ELSE IF parsed.err # NoError
           THEN raise_from_create(parsed.err)
           ELSE goto("cb_connect", [cb EXCEPT !.bucket = parsed.bucket,
                                              !.key_prefix = parsed.key_prefix,
                                              !.remote_archive = TmpDir \o request.archive_name])
    /\ UNCHANGED <<access_key, secret_key, request, ssh_open, cleanup, remote_files, staging,
                   storage, calls, vb, vb_outcome, tampered, dpc, cmd, cloud, aux_vars>>

\* lines 58-68: the preconditions, the parsed destination, the archive path
CreateBackupValidate ==
    /\ pc = "cb_validate"
    /\ LET parsed == _parse_destination_prefix(request.destination_prefix)
       IN  IF Falsy(access_key) \/ Falsy(secret_key)
           THEN raise_from_create(Raise("RuntimeError", <<"S3 credentials are not configured">>))
           ELSE IF Falsy(request.ipv4)
           THEN raise_from_create(Raise("RuntimeError", <<"Server IPv4 address is required for backup">>))
           ELSE IF parsed.err # NoError
           THEN raise_from_create(parsed.err)
           ELSE goto("cb_connect", [cb EXCEPT !.bucket = parsed.bucket,
                                              !.key_prefix = parsed.key_prefix,
                                              !.remote_archive = TmpDir \o request.archive_name])
    /\ UNCHANGED <<access_key, secret_key, request, ssh_open, cleanup, remote_files, staging,
                   storage, calls, vb, vb_outcome, tampered, dpc, cmd, cloud, aux_vars>>

\* a failed connect is tried once more
SshConnect_RetriesOnce ==
    /\ pc = "cb_connect"
    /\ calls' = Append(calls, Call("connect", request.ipv4))
    /\ \/ /\ ssh_open' = TRUE
          /\ goto("cb_tar", cb)
       \/ \E cls \in ExcClasses :
            /\ IF calls = <<>>
               THEN goto("cb_connect", cb)
               ELSE raise_from_create(Raise(cls, <<"connect failed">>))
            /\ UNCHANGED ssh_open
    /\ UNCHANGED <<access_key, secret_key, request, cleanup, remote_files, staging,
                   storage, vb, vb_outcome, tampered, dpc, cmd, cloud, aux_vars>>

\* line 70: ssh_client.connect, before the try block is entered
SshConnect ==
    /\ pc = "cb_connect"
    /\ calls' = Append(calls, Call("connect", request.ipv4))
    /\ \/ /\ ssh_open' = TRUE
          /\ goto("cb_tar", cb)
       \/ \E cls \in ExcClasses :
            /\ raise_from_create(Raise(cls, <<"connect failed">>))
            /\ UNCHANGED ssh_open
    /\ UNCHANGED <<access_key, secret_key, request, cleanup, remote_files, staging,
                   storage, vb, vb_outcome, tampered, dpc, cmd, cloud, aux_vars>>

\* line 72 and _execute_remote_tar: the archive command and its exit status
ExecuteRemoteTar ==
    /\ pc = "cb_tar"
    /\ calls' = Append(calls, Call("exec_command", tar_command(cb.remote_archive, request.remote_path)))
    /\ \/ \* exit status 0: the archive is at the remote path
          \E data \in TarOutputs :
            /\ remote_files' = remote_write(remote_files, cb.remote_archive, data)
            /\ goto("cb_sftp", [cb EXCEPT !.exit_code = 0])
       \/ \* non-zero exit status: RuntimeError with the exit code and stderr
          \E exit_code \in ExitCodes, error_output \in StderrTexts, left \in BOOLEAN :
            /\ remote_files' = IF left
                               THEN remote_write(remote_files, cb.remote_archive, PartialArchive)
                               ELSE remote_files
            /\ tar_failed(exit_code, error_output)
       \/ \* exec_command or the wait for the exit status raises (timeout, lost connection)
          \E cls \in ExcClasses, left \in BOOLEAN :
            /\ remote_files' = IF left
                               THEN remote_write(remote_files, cb.remote_archive, PartialArchive)
                               ELSE remote_files
            /\ fail_into_finally(Raise(cls, <<"exec_command failed">>))
    /\ UNCHANGED <<access_key, secret_key, request, ssh_open, cleanup, staging, storage,
                   vb, vb_outcome, tampered, dpc, cmd, cloud, aux_vars>>

\* the data of the remote file at path
remote_read(files, path) ==
    (CHOOSE f \in files : f.path = path).data

\* lines 74-81: the temporary directory, open_sftp, sftp.get, sftp.close.
\* A failure leaves the with block, which removes the directory.
SftpGet ==
    /\ pc = "cb_sftp"
    /\ \/ /\ \E f \in remote_files : f.path = cb.remote_archive
          /\ calls' = calls \o <<Call("open_sftp", <<>>), Call("sftp.get", cb.remote_archive)>>
          /\ staging' = [dir |-> TRUE, file |-> remote_read(remote_files, cb.remote_archive)]
          /\ goto("cb_checksum", cb)
       \/ \E cls \in ExcClasses :
            /\ calls' = Append(calls, Call("open_sftp", <<>>))
            /\ staging' = NoStaging
            /\ fail_into_finally(Raise(cls, <<"open_sftp failed">>))
       \/ \E cls \in ExcClasses :
            /\ calls' = calls \o <<Call("open_sftp", <<>>), Call("sftp.get", cb.remote_archive)>>
            /\ staging' = NoStaging
            /\ fail_into_finally(Raise(cls, <<"sftp.get failed">>))
    /\ UNCHANGED <<access_key, secret_key, request, ssh_open, cleanup, remote_files, storage,
                   vb, vb_outcome, tampered, dpc, cmd, cloud, aux_vars>>

\* the staging directory made with mkdtemp: a failure leaves it behind
ComputeChecksum_LeavesStaging ==
    /\ pc = "cb_checksum"
    /\ \/ goto("cb_upload", [cb EXCEPT !.checksum = _compute_checksum(staging.file)])
       \/ \E cls \in ExcClasses :
            fail_into_finally(Raise(cls, <<"reading the staged file failed">>))
    /\ UNCHANGED <<access_key, secret_key, request, ssh_open, cleanup, remote_files, storage,
                   staging, calls, vb, vb_outcome, tampered, dpc, cmd, cloud, aux_vars>>

\* line 83: the checksum of the staged file
ComputeChecksum ==
    /\ pc = "cb_checksum"
    /\ \/ /\ goto("cb_upload", [cb EXCEPT !.checksum = _compute_checksum(staging.file)])
          /\ UNCHANGED staging
       \/ \E cls \in ExcClasses :
            /\ staging' = NoStaging
            /\ fail_into_finally(Raise(cls, <<"reading the staged file failed">>))
    /\ UNCHANGED <<access_key, secret_key, request, ssh_open, cleanup, remote_files, storage,
                   calls, vb, vb_outcome, tampered, dpc, cmd, cloud, aux_vars>>

\* an exception of upload_file is swallowed
Upload_FailureSwallowed ==
    /\ pc = "cb_upload"
    /\ LET key == _build_s3_key(cb.key_prefix, request.archive_name)
       IN  /\ calls' = Append(calls, Call("upload_file", <<cb.bucket, key>>))
           /\ goto("cb_cleanup", [cb EXCEPT !.key = key, !.size_bytes = Len(staging.file)])
           /\ \/ storage' = storage_put(storage, cb.bucket, key, staging.file)
              \/ UNCHANGED storage
    /\ staging' = NoStaging
    /\ UNCHANGED <<access_key, secret_key, request, ssh_open, cleanup, remote_files,
                   vb, vb_outcome, tampered, dpc, cmd, cloud, aux_vars>>

\* lines 84-87: the object key, upload_file, the size of the staged file;
\* then the with block ends and removes the temporary directory
Upload ==
    /\ pc = "cb_upload"
    /\ LET key == _build_s3_key(cb.key_prefix, request.archive_name)
       IN  /\ calls' = Append(calls, Call("upload_file", <<cb.bucket, key>>))
           /\ \/ /\ storage' = storage_put(storage, cb.bucket, key, staging.file)
                 /\ goto("cb_cleanup", [cb EXCEPT !.key = key, !.size_bytes = Len(staging.file)])
              \/ \E cls \in ExcClasses :
                   /\ goto("cb_cleanup", [cb EXCEPT !.key = key,
                                                    !.pending = Raise(cls, <<"upload_file failed">>)])
                   /\ UNCHANGED storage
    /\ staging' = NoStaging
    /\ UNCHANGED <<access_key, secret_key, request, ssh_open, cleanup, remote_files,
                   vb, vb_outcome, tampered, dpc, cmd, cloud, aux_vars>>

\* _execute_cleanup without suppress: its exception leaves the finally clause
ExecuteCleanup_Unsuppressed ==
    /\ pc = "cb_cleanup"
    /\ calls' = Append(calls, Call("exec_command", rm_command(cb.remote_archive)))
    /\ \/ /\ remote_files' = remote_remove(remote_files, cb.remote_archive)
          /\ cleanup' = [cleanup EXCEPT !.rm = "removed"]
          /\ goto("cb_close", cb)
       \/ /\ cleanup' = [cleanup EXCEPT !.rm = "not_removed"]
          /\ UNCHANGED remote_files
          /\ goto("cb_close", cb)
       \/ /\ cleanup' = [cleanup EXCEPT !.rm = "raised"]
          /\ UNCHANGED remote_files
          /\ raise_from_create(Raise("Exception", <<"rm failed">>))
    /\ UNCHANGED <<access_key, secret_key, request, ssh_open, staging, storage,
                   vb, vb_outcome, tampered, dpc, cmd, cloud, aux_vars>>

\* lines 89-90: with suppress(Exception): _execute_cleanup.  The exit status
\* of rm is never read: the call returning says only that the command was sent.
ExecuteCleanup ==
    /\ pc = "cb_cleanup"
    /\ calls' = Append(calls, Call("exec_command", rm_command(cb.remote_archive)))
    /\ \/ \* the command was sent and rm removed the file
          /\ remote_files' = remote_remove(remote_files, cb.remote_archive)
          /\ cleanup' = [cleanup EXCEPT !.rm = "removed"]
       \/ \* the command was sent and rm failed or never ran on the host
          /\ cleanup' = [cleanup EXCEPT !.rm = "not_removed"]
          /\ UNCHANGED remote_files
       \/ \* exec_command raised: suppressed
          /\ cleanup' = [cleanup EXCEPT !.rm = "raised"]
          /\ UNCHANGED remote_files
    /\ goto("cb_close", cb)
    /\ UNCHANGED <<access_key, secret_key, request, ssh_open, staging, storage,
                   vb, vb_outcome, tampered, dpc, cmd, cloud, aux_vars>>

\* the BackupResult of lines 94-95
backup_result(locals) ==
    [location |-> format_location(locals.bucket, locals.key),
     checksum |-> locals.checksum, size_bytes |-> locals.size_bytes]

\* the end of the finally clause: the exception in flight, if any, goes on to
\* the caller; otherwise lines 94-95 return the result
leave_finally(locals) ==
    IF locals.pending # NoError
    THEN raise_from_create(locals.pending)
    ELSE /\ pc' = "cb_returned"
         /\ cb_outcome' = [kind |-> "returned", result |-> backup_result(locals), error |-> NoError]
         /\ UNCHANGED cb

\* the session is closed after the try block instead of in its finally clause
CloseSession_OnSuccessOnly ==
    /\ pc = "cb_close"
    /\ IF cb.pending # NoError
       THEN UNCHANGED <<calls, ssh_open, cleanup>>
       ELSE /\ calls' = Append(calls, Call("close", <<>>))
            /\ \/ /\ ssh_open' = FALSE
                  /\ cleanup' = [cleanup EXCEPT !.close = "closed"]
               \/ /\ cleanup' = [cleanup EXCEPT !.close = "raised"]
                  /\ UNCHANGED ssh_open
    /\ leave_finally(cb)
    /\ UNCHANGED <<access_key, secret_key, request, remote_files, staging, storage,
                   vb, vb_outcome, tampered, dpc, cmd, cloud, aux_vars>>

\* lines 91-95: with suppress(Exception): ssh_client.close(), then the return
CloseSession ==
    /\ pc = "cb_close"
    /\ calls' = Append(calls, Call("close", <<>>))
    /\ \/ /\ ssh_open' = FALSE
          /\ cleanup' = [cleanup EXCEPT !.close = "closed"]
       \/ \* close raised: suppressed
          /\ cleanup' = [cleanup EXCEPT !.close = "raised"]
          /\ UNCHANGED ssh_open
    /\ leave_finally(cb)
    /\ UNCHANGED <<access_key, secret_key, request, remote_files, staging, storage,
                   vb, vb_outcome, tampered, dpc, cmd, cloud, aux_vars>>

(***************************************************************************)
(* S3BackupService.verify_backup.                                          *)
(***************************************************************************)
\* codes of ClientError that get_object may report for reasons other than
\* a missing object
OtherClientErrors == {"AccessDenied", "InternalError"}

\* codes a backend reports for a missing object
MissingCodes == {"NoSuchKey", "404"}

\* an exception leaves verify_backup
raise_from_verify(error) ==
    /\ pc' = "vb_raised"
    /\ vb_outcome' = [kind |-> "raised", value |-> FALSE, error |-> error]

return_from_verify(value) ==
    /\ pc' = "vb_returned"
    /\ vb_outcome' = [kind |-> "returned", value |-> value, error |-> NoError]

\* lines 98-99: the location is parsed before anything is fetched
VerifyParse ==
    /\ pc = "vb_parse"
    /\ LET parsed == _parse_backup_location(vb.result.location)
       IN  IF parsed.err # NoError
           THEN /\ raise_from_verify(parsed.err)
                /\ UNCHANGED vb
           ELSE /\ vb' = [vb EXCEPT !.bucket = parsed.bucket, !.key = parsed.key]
                /\ pc' = "vb_fetch"
                /\ UNCHANGED vb_outcome
    /\ UNCHANGED <<access_key, secret_key, request, cb, ssh_open, cleanup, remote_files,
                   staging, storage, calls, cb_outcome, tampered, dpc, cmd, cloud, aux_vars>>

\* every ClientError is taken as "the object is missing"
on_client_error_all_false(code) ==
    /\ vb' = [vb EXCEPT !.error_code = code]
    /\ return_from_verify(FALSE)

\* only the code NoSuchKey is taken as "missing"; a 404 is raised again
on_client_error_404_raised(code) ==
    /\ vb' = [vb EXCEPT !.error_code = code]
    /\ IF code = "NoSuchKey"
       THEN return_from_verify(FALSE)
       ELSE raise_from_verify(Raise("ClientError", <<code>>))

\* what the except clause of lines 102-107 does with a ClientError
on_client_error(code) ==
    /\ vb' = [vb EXCEPT !.error_code = code]
    /\ IF code \in {"NoSuchKey", "404"}
       THEN return_from_verify(FALSE)
       ELSE raise_from_verify(Raise("ClientError", <<code>>))

\* lines 100-107: get_object and the handling of ClientError
VerifyFetch ==
    /\ pc = "vb_fetch"
    /\ calls' = Append(calls, Call("get_object", <<vb.bucket, vb.key>>))
    /\ \/ /\ storage_has(storage, vb.bucket, vb.key)
          /\ LET data == storage_get(storage, vb.bucket, vb.key)
             IN  vb' = [vb EXCEPT !.body = data, !.content_length = Len(data)]
          /\ pc' = "vb_compare"
          /\ UNCHANGED vb_outcome
       \/ \* the object is not there: the backend says so with one of its codes
          /\ ~storage_has(storage, vb.bucket, vb.key)
          /\ \E code \in MissingCodes : on_client_error(code)
       \/ \* the backend refuses or fails
          \E code \in OtherClientErrors : on_client_error(code)
       \/ \* an exception that is no ClientError (connection, credentials lookup)
          /\ \E cls \in ExcClasses : raise_from_verify(Raise(cls, <<"get_object failed">>))
          /\ UNCHANGED vb
    /\ UNCHANGED <<access_key, secret_key, request, cb, ssh_open, cleanup, remote_files,
                   staging, storage, cb_outcome, tampered, dpc, cmd, cloud, aux_vars>>

\* the size comparison left out of the result
verdict_checksum_only(result, body, content_length) ==
    hexdigest(read_chunks(sha256_new, body)) = result.checksum

\* lines 120-129: the two comparisons and their conjunction
verdict(result, body, content_length) ==
    LET checksum_matches == hexdigest(read_chunks(sha256_new, body)) = result.checksum
        size_matches     == content_length = result.size_bytes
    IN  checksum_matches /\ size_matches

\* lines 109-129: the body is read chunk by chunk and compared
VerifyCompare ==
    /\ pc = "vb_compare"
    /\ \/ return_from_verify(verdict(vb.result, vb.body, vb.content_length))
       \/ \E cls \in ExcClasses : raise_from_verify(Raise(cls, <<"body.read failed">>))
    /\ UNCHANGED <<access_key, secret_key, request, cb, ssh_open, cleanup, remote_files,
                   staging, storage, calls, cb_outcome, vb, tampered, dpc, cmd, cloud, aux_vars>>

(***************************************************************************)
(* Other parties: the object store is shared.                              *)
(***************************************************************************)
\* what another writer may leave at a key that holds data: other bytes of
\* the same length, or more bytes
other_versions(data) ==
    {[i \in 1..Len(data) |-> IF i = 1 THEN 0 ELSE data[i]], Append(data, 0)}

\* between create_backup and verify_backup the uploaded object is
\* overwritten or deleted by someone else
StorageChanges ==
    /\ pc = "cb_returned"
    /\ ~tampered
    /\ storage_has(storage, cb.bucket, cb.key)
    /\ \/ \E version \in other_versions(storage_get(storage, cb.bucket, cb.key)) :
            storage' = storage_put(storage, cb.bucket, cb.key, version)
       \/ storage' = {o \in storage : ~(o.bucket = cb.bucket /\ o.key = cb.key)}
    /\ tampered' = TRUE
    /\ UNCHANGED <<access_key, secret_key, pc, request, cb, ssh_open, cleanup, remote_files,
                   staging, calls, cb_outcome, vb, vb_outcome, dpc, cmd, cloud, aux_vars>>

(***************************************************************************)
(* A caller of the service (the tests, any BackupProvider user).           *)
(***************************************************************************)
LocationSchemes ==
    {<<>>, S3Scheme, <<"S", "3", ":", "/", "/">>, <<"h", ":", "/", "/">>, <<"s", "3", ":">>}

Locations ==
    {scheme \o body : scheme \in LocationSchemes, body \in StringsUpTo(MaxLen)}

\* BackupResult values a caller may hand to verify_backup
Results ==
    [location : Locations,
     checksum : {_compute_checksum(<<1>>), <<"d", "e">>},
     size_bytes : 0..MaxPayload]

CallCreateBackup ==
    /\ dpc = "off"
    /\ pc = "idle"
    /\ \E req \in Requests : request' = req
    /\ pc' = "cb_validate"
    /\ UNCHANGED <<access_key, secret_key, cb, ssh_open, cleanup, remote_files, staging,
                   storage, calls, cb_outcome, vb, vb_outcome, tampered, dpc, cmd, cloud, aux_vars>>

\* verify_backup on the result create_backup returned
CallVerifyBackup ==
    /\ dpc = "off"
    /\ pc = "cb_returned"
    /\ vb' = [NoVerify EXCEPT !.result = cb_outcome.result]
    /\ pc' = "vb_parse"
    /\ UNCHANGED <<access_key, secret_key, request, cb, ssh_open, cleanup, remote_files,
                   staging, storage, calls, cb_outcome, vb_outcome, tampered, dpc, cmd, cloud, aux_vars>>

\* verify_backup on a result the service did not produce
CallVerifyForeign ==
    /\ dpc = "off"
    /\ pc = "idle"
    /\ \E result \in Results : vb' = [NoVerify EXCEPT !.result = result]
    /\ pc' = "vb_parse"
    /\ UNCHANGED <<access_key, secret_key, request, cb, ssh_open, cleanup, remote_files,
                   staging, storage, calls, cb_outcome, vb_outcome, tampered, dpc, cmd, cloud, aux_vars>>

(***************************************************************************)
(* HetznerCloudProvider, as far as the delete command uses it.             *)
(***************************************************************************)
\* _SAMPLE_INSTANCE
SampleInstance ==
    [identifier |-> <<"sample-1">>, name |-> <<"ephemeral-sample">>,
     ipv4 |-> <<"203.0.113.10">>, label_type |-> "Ephemeral"]

\* servers of the account
ServerE1 ==
    [identifier |-> <<"1">>, name |-> <<"a">>, ipv4 |-> <<"1">>, label_type |-> "Ephemeral"]

ServerE2 ==
    [identifier |-> <<"2">>, name |-> <<"k">>, ipv4 |-> None, label_type |-> "Ephemeral"]

ServerP ==
    [identifier |-> <<"3">>, name |-> <<"b">>, ipv4 |-> <<"1">>, label_type |-> "Persistent"]

Clouds ==
    {[has_client |-> FALSE, servers |-> <<>>, delete_requests |-> <<>>],
     [has_client |-> TRUE, servers |-> <<>>, delete_requests |-> <<>>],
     [has_client |-> TRUE, servers |-> <<ServerE1, ServerE2, ServerP>>, delete_requests |-> <<>>]}

\* EPHEMERAL_LABEL
EPHEMERAL_LABEL == "Ephemeral"

\* list_servers without its label filter
matching_any(servers, label) ==
    servers

\* the label filter of list_servers
matching(servers, label) ==
    SelectSeq(servers, LAMBDA srv : srv.label_type = label)

\* int(server_id) succeeds
is_numeric(server_id) ==
    server_id # <<>> /\ \A i \in 1..Len(server_id) : server_id[i] \in {"1", "2", "3", "9"}

\* _get_server_resource: get_by_id for a numeric identifier, else get_by_name
lookup(servers, server_id) ==
    IF is_numeric(server_id)
    THEN {srv \in {servers[i] : i \in 1..Len(servers)} : srv.identifier = server_id}
    ELSE {srv \in {servers[i] : i \in 1..Len(servers)} : srv.name = server_id}

(***************************************************************************)
(* The delete command (commands/delete.py).                                *)
(***************************************************************************)
ServerIdOptions == {None, <<"1">>, <<"3">>, <<"9">>}

\* answers to the remote path prompt: nothing, or a path
RemotePathAnswers == {<<>>, <<"/", "v", "/">>}

\* answers to the destination prompt
DestinationAnswers ==
    {scheme \o body : scheme \in {<<>>, S3Scheme}, body \in StringsUpTo(MaxLen - 2)}

DefaultRemotePath == <<"/var/backups">>

InitDelete ==
    /\ ServiceInit
    /\ dpc = "select"
    /\ \E server_id \in ServerIdOptions, skip_backup \in BOOLEAN :
         cmd = [NoCommand EXCEPT !.server_id = server_id, !.skip_backup = skip_backup]
    /\ cloud \in Clouds
    /\ ssh_run = NoRun
    /\ dns = NoUpdate
    /\ conf = NoConfig
    /\ hz = NoProvider
    /\ crt = NoCreate

\* raise typer.Exit(code=code), or the normal end of the command (0)
exit_with(code) ==
    /\ dpc' = "done"
    /\ cmd' = [cmd EXCEPT !.exit_code = code]

\* lines 109-132: the server named by --server-id, or the one picked at the prompt
choose_from(servers) ==
    IF servers = <<>>
    THEN exit_with(1)
    ELSE IF ~Falsy(cmd.server_id)
    THEN IF \E i \in 1..Len(servers) : servers[i].identifier = cmd.server_id
         THEN /\ cmd' = [cmd EXCEPT !.server =
                    servers[CHOOSE i \in 1..Len(servers) :
                        /\ servers[i].identifier = cmd.server_id
                        /\ \A j \in 1..(i - 1) : servers[j].identifier # cmd.server_id]]
              /\ dpc' = "prefs"
         ELSE exit_with(1)
    ELSE \/ \E i \in 1..Len(servers) :
              /\ cmd' = [cmd EXCEPT !.server = servers[i]]
              /\ dpc' = "prefs"
         \/ \* the prompt was cancelled
            exit_with(1)

\* line 48, _select_server and HetznerCloudProvider.list_servers
SelectServer ==
    /\ dpc = "select"
    /\ \/ /\ ~cloud.has_client
          /\ choose_from(<<SampleInstance>>)
       \/ \* servers.get_all raised: the sample is returned
          /\ cloud.has_client
          /\ choose_from(<<SampleInstance>>)
       \/ /\ cloud.has_client
          /\ choose_from(matching(cloud.servers, EPHEMERAL_LABEL))
       \/ \* converting a server raised: the listing fails
          /\ cloud.has_client
          /\ cloud.servers # <<>>
          /\ exit_with(1)
    /\ UNCHANGED <<svc_vars, cloud, aux_vars>>

\* the backup prompt is shown whether or not the S3 keys are configured
CollectBackupPreferences_KeysIgnored ==
    /\ dpc = "prefs"
    /\ dpc' = "confirm"
    /\ IF cmd.skip_backup
       THEN cmd' = [cmd EXCEPT !.backup_opts = NoBackup]
       ELSE \/ cmd' = [cmd EXCEPT !.backup_opts = NoBackup, !.asked_backup = TRUE]
            \/ \E remote_path \in RemotePathAnswers, destination \in DestinationAnswers :
                 cmd' = [cmd EXCEPT !.asked_backup = TRUE, !.backup_opts =
                    [enabled |-> TRUE,
                     remote_path |-> IF Falsy(remote_path) THEN DefaultRemotePath ELSE remote_path,
                     destination_prefix |-> IF Falsy(destination) THEN <<>> ELSE destination]]
    /\ UNCHANGED <<svc_vars, cloud, aux_vars>>

\* line 49, _collect_backup_preferences
CollectBackupPreferences ==
    /\ dpc = "prefs"
    /\ dpc' = "confirm"
    /\ IF cmd.skip_backup
       THEN cmd' = [cmd EXCEPT !.backup_opts = NoBackup]
       ELSE IF ~(~Falsy(access_key) /\ ~Falsy(secret_key))
       THEN cmd' = [cmd EXCEPT !.backup_opts = NoBackup]
       ELSE \/ \* "Perform S3 backup?" answered no
               cmd' = [cmd EXCEPT !.backup_opts = NoBackup, !.asked_backup = TRUE]
            \/ \E remote_path \in RemotePathAnswers, destination \in DestinationAnswers :
                 cmd' = [cmd EXCEPT !.asked_backup = TRUE, !.backup_opts =
                    [enabled |-> TRUE,
                     remote_path |-> IF Falsy(remote_path) THEN DefaultRemotePath ELSE remote_path,
                     destination_prefix |-> IF Falsy(destination) THEN <<>> ELSE destination]]
    /\ UNCHANGED <<svc_vars, cloud, aux_vars>>

\* the answer to "Continue?" is not looked at
Confirm_AnswerIgnored ==
    /\ dpc = "confirm"
    /\ dpc' = "backup_start"
    /\ \E answer \in {"yes", "no"} : cmd' = [cmd EXCEPT !.confirmed = answer]
    /\ UNCHANGED <<svc_vars, cloud, aux_vars>>

\* lines 51-56: the summary and the "Continue?" prompt
Confirm ==
    /\ dpc = "confirm"
    /\ \/ /\ dpc' = "backup_start"
          /\ cmd' = [cmd EXCEPT !.confirmed = "yes"]
       \/ \* declined: typer.Exit(code=1)
          /\ dpc' = "done"
          /\ cmd' = [cmd EXCEPT !.confirmed = "no", !.exit_code = 1]
    /\ UNCHANGED <<svc_vars, cloud, aux_vars>>

\* the backup is started whether or not it was asked for
StartBackup_Always ==
    /\ dpc = "backup_start"
    /\ request' =
          [ipv4 |-> cmd.server.ipv4,
           remote_path |-> IF Falsy(cmd.backup_opts.remote_path)
                           THEN <<"/">> ELSE cmd.backup_opts.remote_path,
           archive_name |-> cmd.server.name \o <<"-backup.tar.gz">>,
           destination_prefix |-> IF Falsy(cmd.backup_opts.destination_prefix)
                                  THEN <<>> ELSE cmd.backup_opts.destination_prefix]
    /\ pc' = "cb_validate"
    /\ dpc' = "backup"
    /\ UNCHANGED <<access_key, secret_key, cb, ssh_open, cleanup, remote_files, staging,
                   storage, calls, cb_outcome, vb, vb_outcome, tampered, cmd, cloud, aux_vars>>

\* lines 58-60 and 206-214: the backup provider, the request, create_backup
StartBackup ==
    /\ dpc = "backup_start"
    /\ IF cmd.backup_opts.enabled
       THEN /\ request' =
                [ipv4 |-> cmd.server.ipv4,
                 remote_path |-> IF Falsy(cmd.backup_opts.remote_path)
                                 THEN <<"/">> ELSE cmd.backup_opts.remote_path,
                 archive_name |-> cmd.server.name \o <<"-backup.tar.gz">>,
                 destination_prefix |-> IF Falsy(cmd.backup_opts.destination_prefix)
                                        THEN <<>> ELSE cmd.backup_opts.destination_prefix]
            /\ pc' = "cb_validate"
            /\ dpc' = "backup"
       ELSE /\ dpc' = "delete"
            /\ UNCHANGED <<request, pc>>
    /\ UNCHANGED <<access_key, secret_key, cb, ssh_open, cleanup, remote_files, staging,
                   storage, calls, cb_outcome, vb, vb_outcome, tampered, cmd, cloud, aux_vars>>

\* every exception of the provider taken as "backup not available": proceed
on_backup_error_proceeds(error) ==
    /\ dpc' = "delete"
    /\ UNCHANGED cmd

\* what _perform_backup and lines 61-63 do with an exception of the provider:
\* NotImplementedError lets the deletion proceed, anything else ends the command
on_backup_error(error) ==
    IF error.cls = "NotImplementedError"
    THEN /\ dpc' = "delete"
         /\ UNCHANGED cmd
    ELSE exit_with(1)

\* lines 214-215 and 224-231: create_backup came back
BackupCreated ==
    /\ dpc = "backup"
    /\ \/ /\ pc = "cb_returned"
          /\ vb' = [NoVerify EXCEPT !.result = cb_outcome.result]
          /\ pc' = "vb_parse"
          /\ UNCHANGED <<dpc, cmd>>
       \/ /\ pc = "cb_raised"
          /\ on_backup_error(cb_outcome.error)
          /\ pc' = "idle"
          /\ UNCHANGED vb
    /\ UNCHANGED <<access_key, secret_key, request, cb, ssh_open, cleanup, remote_files,
                   staging, storage, calls, cb_outcome, vb_outcome, tampered, cloud, aux_vars>>

\* lines 215-231 and 61-63: verify_backup came back
BackupVerified ==
    /\ dpc = "backup"
    /\ \/ /\ pc = "vb_returned"
          /\ IF vb_outcome.value
             THEN /\ dpc' = "delete"
                  /\ UNCHANGED cmd
             ELSE exit_with(1)
       \/ /\ pc = "vb_raised"
          /\ on_backup_error(vb_outcome.error)
    /\ pc' = "idle"
    /\ UNCHANGED <<access_key, secret_key, request, cb, ssh_open, cleanup, remote_files,
                   staging, storage, calls, cb_outcome, vb, vb_outcome, tampered, cloud, aux_vars>>

\* lines 65-85 and HetznerCloudProvider.delete_server: every failure of the
\* provider is a RuntimeError, which ends the command with code 1
DeleteServer ==
    /\ dpc = "delete"
    /\ dpc' = "done"
    /\ LET server_id == cmd.server.identifier
           found     == lookup(cloud.servers, server_id)
       IN  \/ \* _require_client raises (no client), the lookup finds nothing, or
              \* the lookup itself raises (APIException, connection)
              /\ cmd' =[cmd EXCEPT !.delete_calls = Append(@, server_id), !.exit_code = 1]
              /\ UNCHANGED cloud
           \/ \* client.servers.delete raises
              /\ cloud.has_client
              /\ found # {}
              /\ cmd' = [cmd EXCEPT !.delete_calls = Append(@, server_id), !.exit_code = 1]
              /\ cloud' = [cloud EXCEPT !.delete_requests = Append(@, server_id)]
           \/ /\ cloud.has_client
              /\ found # {}
              /\ cmd' = [cmd EXCEPT !.delete_calls = Append(@, server_id), !.exit_code = 0]
              /\ cloud' = [cloud EXCEPT
                    !.servers = SelectSeq(@, LAMBDA srv : srv \notin found),
                    !.delete_requests = Append(@, server_id)]
    /\ UNCHANGED <<svc_vars, aux_vars>>

(***************************************************************************)
(* ParamikoSSHService.run (services/ssh.py).                               *)
(***************************************************************************)
\* shlex.quote; "a", "/" and "-" are the characters of the model it
\* leaves alone
quote(part) ==
    LET escaped(c) == IF c = "'" THEN <<"'", "\"", "'", "\"", "'">> ELSE <<c>>
        replaced[i \in 0..Len(part)] ==
            IF i = 0 THEN <<>> ELSE replaced[i - 1] \o escaped(part[i])
    IN  IF part = <<>>
        THEN <<"'", "'">>
        ELSE IF \A i \in 1..Len(part) : part[i] \in {"a", "/", "-"}
        THEN part
        ELSE <<"'">> \o replaced[Len(part)] \o <<"'">>

\* " ".join(shlex.quote(part) for part in command)
join_quoted(command) ==
    LET joined[i \in 0..Len(command)] ==
            IF i = 0 THEN <<>>
            ELSE IF i = 1 THEN quote(command[1])
            ELSE joined[i - 1] \o <<" ">> \o quote(command[i])
    IN  joined[Len(command)]

\* bytes.decode("utf-8", "replace"): a byte that is no UTF-8 becomes U+FFFD
decode(bytes) ==
    [i \in 1..Len(bytes) |-> IF bytes[i] = 97 THEN "a" ELSE "U+FFFD"]

Commands ==
    {<<part>> : part \in {<<>>, <<"a">>, <<"a", " ">>, <<"'">>}} \cup
    {<<<<"a">>, part>> : part \in {<<"a">>, <<"'">>}}

\* what the remote command writes to a stream
StreamBytes == {<<>>, <<97>>, <<97, 255>>}

\* an exception leaves run
raise_from_run(locals, error) ==
    ssh_run' = [locals EXCEPT !.pc = "run_raised",
                              !.outcome = [kind |-> "raised", value |-> <<>>, error |-> error]]

\* the try block without its finally clause: the exception leaves run at once
run_fail_without_finally(locals, error) ==
    raise_from_run(locals, error)

\* a statement of the try block of lines 42-46 raised: on to the finally clause
run_fail(locals, error) ==
    ssh_run' = [locals EXCEPT !.pc = "run_finally", !.pending = error]

\* a caller runs a command on a host
CallRun ==
    /\ dpc = "off"
    /\ pc = "idle"
    /\ ssh_run.pc = "idle"
    /\ \E command \in Commands :
         ssh_run' = [ssh_run EXCEPT !.pc = "run_connect", !.command = command,
                                    !.cmd = join_quoted(command)]
    /\ UNCHANGED <<svc_vars, dpc, cmd, cloud, dns, ext_vars>>

\* lines 33-41: client.connect, before the try block
RunConnect ==
    /\ ssh_run.pc = "run_connect"
    /\ LET called == [ssh_run EXCEPT !.calls = Append(@, Call("connect", <<>>))]
       IN  \/ ssh_run' = [called EXCEPT !.pc = "run_exec", !.session = "open"]
           \/ \E cls \in ExcClasses : raise_from_run(called, Raise(cls, <<"connect failed">>))
    /\ UNCHANGED <<svc_vars, dpc, cmd, cloud, dns, ext_vars>>

\* line 43: client.exec_command
RunExec ==
    /\ ssh_run.pc = "run_exec"
    /\ LET called == [ssh_run EXCEPT !.calls = Append(@, Call("exec_command", ssh_run.cmd))]
       IN  \/ \E out \in StreamBytes, err \in StreamBytes :
                ssh_run' = [called EXCEPT !.pc = "run_wait", !.streams = TRUE,
                                          !.stdout = out, !.stderr = err]
           \/ \E cls \in ExcClasses : run_fail(called, Raise(cls, <<"exec_command failed">>))
    /\ UNCHANGED <<svc_vars, dpc, cmd, cloud, dns, ext_vars>>

\* line 44: recv_exit_status
RunWait ==
    /\ ssh_run.pc = "run_wait"
    /\ \/ \E exit_code \in {0} \cup ExitCodes :
            ssh_run' = [ssh_run EXCEPT !.pc = "run_read", !.exit_code = exit_code]
       \/ \E cls \in ExcClasses : run_fail(ssh_run, Raise(cls, <<"recv_exit_status failed">>))
    /\ UNCHANGED <<svc_vars, dpc, cmd, cloud, dns, ext_vars>>

\* lines 45-46: both streams are read and decoded
RunRead ==
    /\ ssh_run.pc = "run_read"
    /\ \/ ssh_run' = [ssh_run EXCEPT !.pc = "run_finally",
                                     !.output = decode(ssh_run.stdout),
                                     !.error_output = decode(ssh_run.stderr)]
       \/ \E cls \in ExcClasses : run_fail(ssh_run, Raise(cls, <<"read failed">>))
    /\ UNCHANGED <<svc_vars, dpc, cmd, cloud, dns, ext_vars>>

\* lines 47-55: the three streams are closed (unbound names raise inside
\* suppress), then the client; every exception is suppressed
RunFinally ==
    /\ ssh_run.pc = "run_finally"
    /\ \E closed \in BOOLEAN :
         LET after == [ssh_run EXCEPT !.calls = Append(@, Call("close", <<>>)),
                                      !.session = IF closed THEN "closed" ELSE @]
         IN  IF ssh_run.pending # NoError
             THEN raise_from_run(after, ssh_run.pending)
             ELSE ssh_run' = [after EXCEPT !.pc = "run_check"]
    /\ UNCHANGED <<svc_vars, dpc, cmd, cloud, dns, ext_vars>>

\* lines 57-61: the exit code decides between RuntimeError and the output
RunCheck ==
    /\ ssh_run.pc = "run_check"
    /\ IF ssh_run.exit_code # 0
       THEN raise_from_run(ssh_run,
                Raise("RuntimeError",
                      <<"Remote command failed", ToString(ssh_run.exit_code)>>
                          \o ssh_run.error_output))
       ELSE ssh_run' = [ssh_run EXCEPT !.pc = "run_returned",
                           !.outcome = [kind |-> "returned", value |-> ssh_run.output,
                                        error |-> NoError]]
    /\ UNCHANGED <<svc_vars, dpc, cmd, cloud, dns, ext_vars>>

NextSsh ==
    \/ CallRun
    \/ RunConnect
    \/ RunExec
    \/ RunWait
    \/ RunRead
    \/ RunFinally
    \/ RunCheck

SpecSsh == InitIdle /\ [][NextSsh]_vars

(***************************************************************************)
(* DuckDNSProvider.update_record (services/duckdns.py).                    *)
(***************************************************************************)
\* longest response body of the model
MaxBody == 4

BASE_URL == <<"https://www.duckdns.org/update">>

\* self._token
Token == <<"abc">>

Hosts == {<<"example">>}

Whitespace == {" ", "\n"}

RECURSIVE BodiesUpTo(_)
BodiesUpTo(n) ==
    IF n = 0 THEN {<<>>}
    ELSE LET shorter == BodiesUpTo(n - 1)
         IN  shorter \cup {Append(s, c) : s \in {t \in shorter : Len(t) = n - 1}, c \in {"o", "O", "k", "K"} \cup Whitespace}

\* response.text
Bodies == BodiesUpTo(MaxBody)

\* subclasses of requests.exceptions.RequestException
RequestExceptions == {"Timeout", "ConnectionError"}

\* str.strip
strip(text) ==
    LET inner == {i \in 1..Len(text) : text[i] \notin Whitespace}
    IN  IF inner = {} THEN <<>>
        ELSE SubSeq(text,
                    CHOOSE i \in inner : \A j \in inner : i <= j,
                    CHOOSE i \in inner : \A j \in inner : j <= i)

\* the payload compared as it came
upper_unchanged(text) ==
    text

\* str.upper
upper(text) ==
    [i \in 1..Len(text) |->
        IF text[i] = "o" THEN "O" ELSE IF text[i] = "k" THEN "K" ELSE text[i]]

\* an exception leaves update_record
raise_from_update(locals, error) ==
    dns' = [locals EXCEPT !.pc = "update_raised",
                          !.outcome = [kind |-> "raised", error |-> error]]

\* lines 29-37: the query parameters, with clear=true for a missing address
update_record(host, ipv4) ==
    LET keys == {"domains", "token", "ip"} \cup (IF Falsy(ipv4) THEN {"clear"} ELSE {})
        params == [k \in keys |->
                      CASE k = "domains" -> host
                        [] k = "token" -> Token
                        [] k = "ip" -> ipv4
                        [] k = "clear" -> <<"true">>]
    IN  dns' = [dns EXCEPT !.pc = "update_get", !.host = host, !.ipv4 = ipv4,
                           !.params = params]

\* a caller of update_record
CallUpdateRecord ==
    /\ dpc = "off"
    /\ pc = "idle"
    /\ dns.pc = "idle"
    /\ crt.pc = "off"
    /\ \E host \in Hosts, ipv4 \in IPv4Values : update_record(host, ipv4)
    /\ UNCHANGED <<svc_vars, dpc, cmd, cloud, ssh_run, ext_vars>>

\* lines 39-43: session.get; a RequestException becomes RuntimeError, any
\* other exception propagates as it is
SessionGet ==
    /\ dns.pc = "update_get"
    /\ LET requested == [dns EXCEPT !.requests =
                            Append(@, [url |-> BASE_URL, params |-> dns.params, timeout |-> 15])]
       IN  \/ \E text \in Bodies :
                dns' = [requested EXCEPT !.pc = "update_check", !.text = text]
           \/ \E cls \in RequestExceptions :
                raise_from_update([requested EXCEPT !.failure = cls],
                                  Raise("RuntimeError", <<"DuckDNS request failed">>))
           \/ raise_from_update([requested EXCEPT !.failure = "Exception"],
                                Raise("Exception", <<"get failed">>))
    /\ UNCHANGED <<svc_vars, dpc, cmd, cloud, ssh_run, ext_vars>>

\* lines 45-50: the stripped body must read OK in any letter case
CheckPayload ==
    /\ dns.pc = "update_check"
    /\ LET payload == strip(dns.text)
       IN  IF upper(payload) # <<"O", "K">>
           THEN raise_from_update(dns, Raise("RuntimeError",
                                             <<"DuckDNS update failed: ">> \o payload))
           ELSE dns' = [dns EXCEPT !.pc = "update_returned",
                                   !.outcome = [kind |-> "returned", error |-> NoError]]
    /\ UNCHANGED <<svc_vars, dpc, cmd, cloud, ssh_run, ext_vars>>

NextDns ==
    \/ CallUpdateRecord
    \/ SessionGet
    \/ CheckPayload

SpecDns == InitIdle /\ [][NextDns]_vars

(***************************************************************************)
(* AppConfig.from_sources (ephetzner_core/config.py).                      *)
(***************************************************************************)
CONFIG_SECTION == "ephetzner"

SECRETS_SECTION == "ephetzner.secrets"

\* two of the seven names of _CONFIG_FIELDS, one sensitive and one not; the
\* loops treat every name alike
_CONFIG_FIELDS == <<"hetzner_api_token", "s3_endpoint">>

_SENSITIVE_FIELDS == {"hetzner_api_token"}

\* the environment variable from_env reads for a field
env_key(field) ==
    IF field = "hetzner_api_token" THEN "HETZNER_API_TOKEN" ELSE "S3_ENDPOINT"

\* d[k] = v
dict_set(d, k, v) ==
    [f \in DOMAIN d \cup {k} |-> IF f = k THEN v ELSE d[f]]

\* what os.getenv may give for each variable: None when it is unset
Environments ==
    [{env_key(_CONFIG_FIELDS[i]) : i \in DOMAIN _CONFIG_FIELDS} ->
        {None, <<>>, <<" ">>, <<"e">>, <<" ", "e", " ">>}]

\* an ini file holds at most one option per section and name; an option of
\* a field is in the section the loader reads or in the other one, and
\* parser.get gives its raw text
IniFiles ==
    LET IniOptions == [section : {CONFIG_SECTION, SECRETS_SECTION},
                       field : {_CONFIG_FIELDS[i] : i \in DOMAIN _CONFIG_FIELDS},
                       raw : {<<>>, <<"i">>}]
    IN
    {[exists |-> FALSE, readable |-> FALSE, options |-> {}],
     [exists |-> TRUE, readable |-> FALSE, options |-> {}]} \cup
    {[exists |-> TRUE, readable |-> TRUE, options |-> options] :
        options \in {o \in SUBSET IniOptions :
            /\ Cardinality(o) <= 2
            /\ \A a, b \in o : (a.section = b.section /\ a.field = b.field) => a = b}}

\* an empty value is kept instead of becoming None
_get_env_blank_kept(value) ==
    IF value = None THEN None ELSE strip(value)

\* lines 150-156
_get_env(value) ==
    IF value = None
    THEN None
    ELSE IF strip(value) = <<>> THEN None ELSE strip(value)

\* lines 178-190
_load_ini_values(file) ==
    LET section(field) == IF field \in _SENSITIVE_FIELDS THEN SECRETS_SECTION ELSE CONFIG_SECTION
        has_option(field) == \E o \in file.options : o.section = section(field) /\ o.field = field
        get(field) == (CHOOSE o \in file.options : o.section = section(field) /\ o.field = field).raw
        values[i \in 0..Len(_CONFIG_FIELDS)] ==
            IF i = 0 THEN <<>>
            ELSE IF has_option(_CONFIG_FIELDS[i])
            THEN dict_set(values[i - 1], _CONFIG_FIELDS[i],
                          IF strip(get(_CONFIG_FIELDS[i])) = <<>>
                          THEN None ELSE strip(get(_CONFIG_FIELDS[i])))
            ELSE values[i - 1]
    IN  IF ~file.readable THEN <<>> ELSE values[Len(_CONFIG_FIELDS)]

CallFromSources ==
    /\ dpc = "off"
    /\ pc = "idle"
    /\ conf.pc = "idle"
    /\ \E ini \in IniFiles, env \in Environments :
         conf' = [conf EXCEPT !.pc = "fs_ini", !.ini = ini, !.env = env]
    /\ UNCHANGED <<svc_vars, dpc, cmd, cloud, ssh_run, dns, hz, crt>>

\* lines 62-64
FromSourcesLoadIni ==
    /\ conf.pc = "fs_ini"
    /\ conf' = [conf EXCEPT !.pc = "fs_env",
                            !.merged = IF conf.ini.exists
                                       THEN _load_ini_values(conf.ini) ELSE <<>>]
    /\ UNCHANGED <<svc_vars, dpc, cmd, cloud, ssh_run, dns, hz, crt>>

\* line 66 and from_env (42-56)
FromSourcesEnv ==
    /\ conf.pc = "fs_env"
    /\ conf' = [conf EXCEPT !.pc = "fs_merge", !.i = 1,
                            !.env_config =
                                [f \in {_CONFIG_FIELDS[i] : i \in DOMAIN _CONFIG_FIELDS} |->
                                    _get_env(conf.env[env_key(f)])]]
    /\ UNCHANGED <<svc_vars, dpc, cmd, cloud, ssh_run, dns, hz, crt>>

\* lines 67-72: one turn of the loop
FromSourcesMerge ==
    /\ conf.pc = "fs_merge"
    /\ conf.i <= Len(_CONFIG_FIELDS)
    /\ LET field == _CONFIG_FIELDS[conf.i]
           value == conf.env_config[field]
       IN  conf' = [conf EXCEPT !.i = @ + 1,
                                !.merged = IF value # None
                                           THEN dict_set(@, field, value)
                                           ELSE IF field \in DOMAIN @ THEN @
                                           ELSE dict_set(@, field, value)]
    /\ UNCHANGED <<svc_vars, dpc, cmd, cloud, ssh_run, dns, hz, crt>>

\* line 74
FromSourcesReturn ==
    /\ conf.pc = "fs_merge"
    /\ conf.i > Len(_CONFIG_FIELDS)
    /\ conf' = [conf EXCEPT !.pc = "fs_returned",
                            !.result = [f \in {_CONFIG_FIELDS[i] : i \in DOMAIN _CONFIG_FIELDS} |->
                                           IF f \in DOMAIN conf.merged
                                           THEN conf.merged[f] ELSE None]]
    /\ UNCHANGED <<svc_vars, dpc, cmd, cloud, ssh_run, dns, hz, crt>>

NextConfig ==
    \/ CallFromSources
    \/ FromSourcesLoadIni
    \/ FromSourcesEnv
    \/ FromSourcesMerge
    \/ FromSourcesReturn

SpecConfig == InitIdle /\ [][NextConfig]_vars

(***************************************************************************)
(* HetznerCloudProvider.create_server and delete_server                    *)
(* (services/hetzner.py), on the account held in cloud.                    *)
(***************************************************************************)
\* an exception leaves the provider
raise_from_provider(locals, error) ==
    hz' = [locals EXCEPT !.pc = "hz_raised",
                         !.outcome = [kind |-> "raised", server |-> NoServer, error |-> error]]

\* lines 240-245: the client is required, then the key is looked at
create_server(req) ==
    LET called == [hz EXCEPT !.request = req, !.keys_before = hz.keys]
    IN  IF ~cloud.has_client
        THEN raise_from_provider(called, Raise("RuntimeError", <<"Hetzner API client is not configured">>))
        ELSE IF ~Falsy(req.ssh_public_key) /\ strip(req.ssh_public_key) # <<>>
        THEN hz' = [called EXCEPT !.pc = "hz_ensure"]
        ELSE hz' = [called EXCEPT !.pc = "hz_create"]

\* a caller of create_server
CallCreateServer ==
    /\ crt.pc = "off"
    /\ hz.pc = "idle"
    /\ \E ssh_public_key \in {None, <<" ">>, <<"p">>, <<" ", "p">>, <<"r">>},
          ipv4 \in {None, <<"1">>} :
         create_server([name |-> <<"n">>, ssh_public_key |-> ssh_public_key, ipv4 |-> ipv4])
    /\ UNCHANGED <<svc_vars, dpc, cmd, cloud, ssh_run, dns, conf, crt>>

\* _ensure_ssh_key, lines 313-331: the key API, the listing, the first key
\* whose stored text equals the requested one once both are stripped
EnsureListKeys ==
    /\ hz.pc = "hz_ensure"
    /\ IF ~hz.has_key_api
       THEN hz' = [hz EXCEPT !.pc = "hz_create"]
       ELSE \E listed \in {hz.keys, <<>>} :
              \* get_all raised when the account has keys and none is listed
              LET normalized == strip(hz.request.ssh_public_key)
                  matches == {i \in DOMAIN listed :
                                 /\ ~Falsy(listed[i].public_key)
                                 /\ strip(listed[i].public_key) = normalized}
                  after == [hz EXCEPT !.key_calls = Append(@, Call("get_all", <<>>)),
                                      !.listed = listed]
              IN  IF matches # {}
                  THEN hz' = [after EXCEPT !.pc = "hz_create",
                                 !.ssh_key = <<listed[CHOOSE i \in matches : \A j \in matches : i <= j]>>]
                  ELSE hz' = [after EXCEPT !.pc = "hz_key_create"]
    /\ UNCHANGED <<svc_vars, dpc, cmd, cloud, ssh_run, dns, conf, crt>>

\* _ensure_ssh_key, lines 333-360: key_api.create and its failures
EnsureCreateKey ==
    /\ hz.pc = "hz_key_create"
    /\ LET normalized == strip(hz.request.ssh_public_key)
           \* key_name; the hex digits of the fingerprint are a tag of the key text
           name == <<"ephetzner-">> \o hz.request.name \o <<"-", "md5:">> \o normalized
           new_key == [name |-> name, public_key |-> normalized]
           created == [hz EXCEPT !.key_calls = Append(@, Call("create", new_key))]
           looked == [created EXCEPT !.key_calls = Append(@, Call("get_by_name", name))]
           by_name == {i \in DOMAIN hz.keys : hz.keys[i].name = name}
       IN  \/ hz' = [created EXCEPT !.keys = Append(@, new_key), !.ssh_key = <<new_key>>,
                                    !.pc = "hz_create"]
           \/ \* APIException "already exists": the key of that name, if it is found
              \E found \in {TRUE, FALSE} :
                 hz' = [looked EXCEPT !.pc = "hz_create",
                           !.ssh_key = IF found /\ by_name # {}
                                       THEN <<hz.keys[CHOOSE i \in by_name : TRUE]>> ELSE <<>>]
           \/ \* any other APIException
              raise_from_provider(created, Raise("RuntimeError", <<"Failed to register SSH key">>))
           \/ \* an exception that is no APIException
              hz' = [created EXCEPT !.pc = "hz_create", !.ssh_key = <<>>]
    /\ UNCHANGED <<svc_vars, dpc, cmd, cloud, ssh_run, dns, conf, crt>>

\* lines 246-275: client.servers.create with the key, if one was found or made
ServersCreate ==
    /\ hz.pc = "hz_create"
    /\ LET ssh_keys == hz.ssh_key
           called == [hz EXCEPT !.server_calls =
                         Append(@, Call("create", [name |-> hz.request.name, ssh_keys |-> ssh_keys]))]
           server == [identifier |-> <<"9">>, name |-> hz.request.name,
                      ipv4 |-> hz.request.ipv4, label_type |-> "Ephemeral"]
       IN  \/ /\ hz' = [called EXCEPT !.pc = "hz_returned",
                           !.outcome = [kind |-> "returned", server |-> server, error |-> NoError]]
              /\ cloud' = [cloud EXCEPT !.servers = Append(@, server)]
           \/ \* APIException, another exception, or a response without a server
              /\ \E msg \in {<<"Failed to create server: ">>, <<"Failed to create server">>} :
                   raise_from_provider(called, Raise("RuntimeError", msg))
              /\ UNCHANGED cloud
    /\ UNCHANGED <<svc_vars, dpc, cmd, ssh_run, dns, conf, crt>>

\* lines 292-294: a caller of delete_server; the client is required
CallDeleteServer ==
    /\ crt.pc = "off"
    /\ hz.pc = "idle"
    /\ \E server_id \in {<<"1">>, <<"9">>, <<"b">>, <<"x">>} :
         LET called == [hz EXCEPT !.server_id = server_id]
         IN  IF ~cloud.has_client
             THEN raise_from_provider(called, Raise("RuntimeError", <<"Hetzner API client is not configured">>))
             ELSE hz' = [called EXCEPT !.pc = "hz_lookup"]
    /\ UNCHANGED <<svc_vars, dpc, cmd, cloud, ssh_run, dns, conf, crt>>

\* the lookup is skipped and the identifier handed to servers.delete
GetServerResource_Unchecked ==
    /\ hz.pc = "hz_lookup"
    /\ hz' = [hz EXCEPT !.pc = "hz_delete",
                        !.resource = [NoServer EXCEPT !.identifier = hz.server_id]]
    /\ UNCHANGED <<svc_vars, dpc, cmd, cloud, ssh_run, dns, conf, crt>>

\* _get_server_resource, lines 362-380
GetServerResource ==
    /\ hz.pc = "hz_lookup"
    /\ LET by == IF is_numeric(hz.server_id) THEN "get_by_id" ELSE "get_by_name"
           called == [hz EXCEPT !.server_calls = Append(@, Call(by, hz.server_id))]
           found == lookup(cloud.servers, hz.server_id)
       IN  \/ IF found = {}
              THEN raise_from_provider(called,
                       Raise("RuntimeError", <<"Server ">> \o hz.server_id \o <<" not found">>))
              ELSE hz' = [called EXCEPT !.pc = "hz_delete", !.resource = CHOOSE srv \in found : TRUE]
           \/ \* APIException or another exception of the lookup
              raise_from_provider(called,
                  Raise("RuntimeError", <<"Failed to fetch server ">> \o hz.server_id))
    /\ UNCHANGED <<svc_vars, dpc, cmd, cloud, ssh_run, dns, conf, crt>>

\* lines 295-303: client.servers.delete
ServersDelete ==
    /\ hz.pc = "hz_delete"
    /\ LET called == [hz EXCEPT !.server_calls = Append(@, Call("delete", hz.resource.identifier))]
       IN  \/ /\ hz' = [called EXCEPT !.pc = "hz_returned",
                           !.outcome = [kind |-> "returned", server |-> NoServer, error |-> NoError]]
              /\ cloud' = [cloud EXCEPT
                    !.servers = SelectSeq(@, LAMBDA srv : srv # hz.resource),
                    !.delete_requests = Append(@, hz.resource.identifier)]
           \/ /\ raise_from_provider(called, Raise("RuntimeError", <<"Failed to delete server">>))
              /\ cloud' = [cloud EXCEPT !.delete_requests = Append(@, hz.resource.identifier)]
    /\ UNCHANGED <<svc_vars, dpc, cmd, ssh_run, dns, conf, crt>>

NextHetzner ==
    \/ CallCreateServer
    \/ EnsureListKeys
    \/ EnsureCreateKey
    \/ ServersCreate
    \/ CallDeleteServer
    \/ GetServerResource
    \/ ServersDelete

\* the accounts of the model: with or without a client, with or without
\* the SSH key API, with stored keys or none
InitHetzner ==
    /\ ServiceInit
    /\ access_key = None
    /\ secret_key = None
    /\ dpc = "off"
    /\ cmd = NoCommand
    /\ cloud \in Clouds
    /\ ssh_run = NoRun
    /\ dns = NoUpdate
    /\ conf = NoConfig
    /\ crt = NoCreate
    /\ \E keys \in {<<>>,
                    <<[name |-> <<"mine">>, public_key |-> <<"p", "\n">>]>>,
                    <<[name |-> <<"old">>, public_key |-> None],
                      [name |-> <<"other">>, public_key |-> <<"q">>],
                      [name |-> <<"mine">>, public_key |-> <<"p", "\n">>]>>} :
         \/ hz = [NoProvider EXCEPT !.has_key_api = TRUE, !.keys = keys]
         \/ keys = <<>> /\ hz = NoProvider

SpecHetzner == InitHetzner /\ [][NextHetzner]_vars

(***************************************************************************)
(* The create command (commands/create.py), on the provider that           *)
(* build_cloud_provider makes of hcloud.Client.                            *)
(***************************************************************************)
\* lines 106-154: the selections and prompts, each of which may end the
\* command with exit code 1, then the request and provider.create_server;
\* the request carries the address the new server will be given
CreatePrepare ==
    /\ crt.pc = "prepare"
    /\ \/ /\ crt' = [crt EXCEPT !.pc = "done", !.exit_code = 1]
          /\ UNCHANGED hz
       \/ \E ssh_public_key \in {None, <<"p">>}, ipv4 \in {None, <<"1">>},
             enabled \in BOOLEAN, hostname \in {None} \cup Hosts :
            \* _ask_duckdns_options: nothing is asked without a token
            /\ enabled => ~Falsy(crt.duckdns_token)
            /\ ~enabled => hostname = None
            /\ crt' = [crt EXCEPT !.pc = "provision",
                          !.duckdns_options = [enabled |-> enabled, hostname |-> hostname]]
            /\ create_server([name |-> <<"n">>, ssh_public_key |-> ssh_public_key, ipv4 |-> ipv4])
    /\ UNCHANGED <<svc_vars, dpc, cmd, cloud, ssh_run, dns, conf>>

\* lines 153-177: the outcome of create_server, then the DNS provider
CreateProvisioned ==
    /\ crt.pc = "provision"
    /\ hz.pc \in {"hz_returned", "hz_raised"}
    /\ IF hz.pc = "hz_raised"
       THEN /\ crt' = [crt EXCEPT !.pc = "done", !.exit_code = 1]
            /\ UNCHANGED dns
       ELSE LET server == hz.outcome.server
                created == [crt EXCEPT !.server = server]
            IN  IF ~crt.duckdns_options.enabled
                THEN /\ crt' = [created EXCEPT !.pc = "done", !.exit_code = 0]
                     /\ UNCHANGED dns
                ELSE IF Falsy(crt.duckdns_token)
                THEN \* build_dns_provider raises ValueError
                     /\ crt' = [created EXCEPT !.pc = "done", !.warned = TRUE, !.exit_code = 0]
                     /\ UNCHANGED dns
                ELSE /\ crt' = [created EXCEPT !.pc = "dns"]
                     /\ update_record(IF Falsy(crt.duckdns_options.hostname)
                                      THEN server.name ELSE crt.duckdns_options.hostname,
                                      IF Falsy(server.ipv4) THEN <<>> ELSE server.ipv4)
    /\ UNCHANGED <<svc_vars, dpc, cmd, cloud, ssh_run, conf, hz>>

\* a failed DNS update ends the command with exit code 1
CreateDnsDone_FailureExits ==
    /\ crt.pc = "dns"
    /\ dns.pc \in {"update_returned", "update_raised"}
    /\ crt' = [crt EXCEPT !.pc = "done", !.warned = (dns.pc = "update_raised"),
                          !.exit_code = IF dns.pc = "update_raised" THEN 1 ELSE 0]
    /\ UNCHANGED <<svc_vars, dpc, cmd, cloud, ssh_run, dns, conf, hz>>

\* lines 178-183: every exception of the DNS update ends in a warning
CreateDnsDone ==
    /\ crt.pc = "dns"
    /\ dns.pc \in {"update_returned", "update_raised"}
    /\ crt' = [crt EXCEPT !.pc = "done", !.warned = (dns.pc = "update_raised"),
                          !.exit_code = 0]
    /\ UNCHANGED <<svc_vars, dpc, cmd, cloud, ssh_run, dns, conf, hz>>

NextCreate ==
    \/ CreatePrepare
    \/ EnsureListKeys
    \/ ServersCreate
    \/ CreateProvisioned
    \/ SessionGet
    \/ CheckPayload
    \/ CreateDnsDone

\* the command starts with or without a DuckDNS token, with or without a
\* Hetzner token; hcloud.Client has no ssh_keys attribute
InitCreate ==
    /\ ServiceInit
    /\ access_key = None
    /\ secret_key = None
    /\ dpc = "off"
    /\ cmd = NoCommand
    /\ cloud \in Clouds
    /\ ssh_run = NoRun
    /\ dns = NoUpdate
    /\ conf = NoConfig
    /\ hz = NoProvider
    /\ \E duckdns_token \in {None, Token} :
         crt = [NoCreate EXCEPT !.pc = "prepare", !.duckdns_token = duckdns_token]

SpecCreate == InitCreate /\ [][NextCreate]_vars

Next ==
    \/ CallCreateBackup
    \/ CallVerifyBackup
    \/ CallVerifyForeign
    \/ CreateBackupValidate
    \/ SshConnect
    \/ ExecuteRemoteTar
    \/ SftpGet
    \/ ComputeChecksum
    \/ Upload
    \/ ExecuteCleanup
    \/ CloseSession
    \/ VerifyParse
    \/ VerifyFetch
    \/ VerifyCompare
    \/ StorageChanges

Spec == Init /\ [][Next]_vars

NextDelete ==
    \/ SelectServer
    \/ CollectBackupPreferences
    \/ Confirm
    \/ StartBackup
    \/ BackupCreated
    \/ BackupVerified
    \/ DeleteServer
    \/ CreateBackupValidate
    \/ SshConnect
    \/ ExecuteRemoteTar
    \/ SftpGet
    \/ ComputeChecksum
    \/ Upload
    \/ ExecuteCleanup
    \/ CloseSession
    \/ VerifyParse
    \/ VerifyFetch
    \/ VerifyCompare
    \/ StorageChanges

SpecDelete == InitDelete /\ [][NextDelete]_vars
(***************************************************************************)
(* Properties of the delete command.                                       *)
(***************************************************************************)
\* the backup of this invocation failed: create_backup raised an error of
\* one of the classes, or verify_backup returned false
backup_failed(classes) ==
    /\ dpc # "off"
    /\ cmd.backup_opts.enabled
    /\ \/ cb_outcome.kind = "raised" /\ cb_outcome.error.cls \in classes
       \/ vb_outcome.kind = "returned" /\ ~vb_outcome.value

\* the server is left alone and the command ends with a non-zero code
server_kept ==
    /\ cmd.delete_calls = <<>>
    /\ cloud.delete_requests = <<>>
    /\ dpc = "done" => cmd.exit_code # 0

\* every class of error create_backup raises in the model
AllErrorClasses == {"RuntimeError", "ValueError", "ClientError"} \cup ExcClasses

create_ended == cb_outcome.kind # "none"

\* the temporary archive of the request is on the remote host
archive_on_host ==
    \E f \in remote_files : f.path = TmpDir \o request.archive_name

\* positions in calls of the archive command and of the remote delete
tar_calls ==
    {i \in 1..Len(calls) :
        /\ calls[i].op = "exec_command"
        /\ calls[i].arg = tar_command(TmpDir \o request.archive_name, request.remote_path)}

rm_calls ==
    {i \in 1..Len(calls) :
        /\ calls[i].op = "exec_command"
        /\ calls[i].arg = rm_command(TmpDir \o request.archive_name)}

C3_DeleteIssuedAfterArchive ==
    create_ended => \A i \in tar_calls : \E j \in rm_calls : j > i

\* the archive command failed and create_backup raised after the delete was issued
C3_Witness ==
    /\ pc = "cb_raised"
    /\ cb.exit_code \in ExitCodes
    /\ tar_calls # {}
    /\ \E j \in rm_calls : \A i \in tar_calls : j > i

\* the calls create_backup made on its collaborators, by name
create_ops ==
    LET name(i) == IF i \in tar_calls THEN "tar"
                   ELSE IF i \in rm_calls THEN "rm"
                   ELSE calls[i].op
    IN  SelectSeq([i \in 1..Len(calls) |-> name(i)], LAMBDA op : op # "get_object")

\* the steps of create_backup that call a collaborator, in order
Steps == <<"connect", "tar", "open_sftp", "sftp.get", "upload_file">>

\* the last step that was started when the error arose; 0 for an error of
\* the preconditions, which are no steps
failed_step(error) ==
    CASE Head(error.msg) = "connect failed" -> 1
      [] Head(error.msg) \in {"Remote archive command failed", "exec_command failed"} -> 2
      [] Head(error.msg) = "open_sftp failed" -> 3
      [] Head(error.msg) \in {"sftp.get failed", "reading the staged file failed"} -> 4
      [] Head(error.msg) = "upload_file failed" -> 5
      [] OTHER -> 0

\* the steps up to the failed one were started, none after it, and then the
\* cleanup phase ran: the remote delete attempt and the session close
aborted_with_cleanup(error) ==
    create_ops = SubSeq(Steps, 1, failed_step(error)) \o <<"rm", "close">>

cleanup_failed ==
    cleanup.rm \in {"raised", "not_removed"} \/ cleanup.close = "raised"

\* C5: a failure of the remote delete command or of the session close during
\* cleanup never changes the outcome of create_backup: if the steps succeeded
\* the same BackupResult is returned, and if a step failed the original error
\* (not the cleanup error) is the one raised to the caller.
C5_CleanupFailureKeepsOutcome ==
    (create_ended /\ cleanup_failed) =>
        IF cb.pending = NoError
        THEN /\ cb_outcome.kind = "returned"
             /\ cb_outcome.result =
                    [location |-> S3Scheme \o cb.bucket \o <<"/">> \o cb.key,
                     checksum |-> cb.checksum, size_bytes |-> cb.size_bytes]
             /\ storage_has(storage, cb.bucket, cb.key) \/ tampered
        ELSE /\ cb_outcome.kind = "raised"
             /\ cb_outcome.error = cb.pending
             /\ failed_step(cb_outcome.error) >= 2

\* both cleanup calls raised after a failed transfer: the transfer's error came out
C5_Witness ==
    /\ pc = "cb_raised"
    /\ cleanup.rm = "raised"
    /\ cleanup.close = "raised"
    /\ failed_step(cb_outcome.error) = 4

\* text is at the end of msg
carries(msg, text) ==
    \E k \in 1..(Len(msg) + 1) : SubSeq(msg, k, Len(msg)) = text

\* C6: if the remote archive command exits with a non-zero status,
\* create_backup fails with an error that carries the command's stderr text,
\* no transfer is attempted and no object is uploaded (storage is unchanged).
C6_ArchiveFailureStopsBackup ==
    cb.exit_code \in ExitCodes =>
        /\ \A i \in 1..Len(calls) : calls[i].op \notin {"open_sftp", "sftp.get", "upload_file"}
        /\ storage = InitialStorage
        /\ cb_outcome.kind # "returned"
        /\ create_ended =>
              /\ cb_outcome.error.cls = "RuntimeError"
              /\ carries(cb_outcome.error.msg, cb.error_output)
              /\ Head(cb_outcome.error.msg) = "Remote archive command failed"

\* tar exited with 1 and "tar: permission denied": the error holds that text
C6_Witness ==
    /\ pc = "cb_raised"
    /\ cb.exit_code = 1
    /\ cb.error_output = <<"tar: permission denied">>
    /\ cb_outcome.error.msg[Len(cb_outcome.error.msg)] = "tar: permission denied"

(***************************************************************************)
(* Properties of verify_backup.                                            *)
(***************************************************************************)
\* verify_backup has returned or raised
verify_ended == pc \in {"vb_returned", "vb_raised"}

\* C7: for every valid request on which connect, archive, transfer and upload
\* succeed, verify_backup applied to the BackupResult that create_backup
\* returned is true, provided the stored object is not modified in between.
C7_CreateThenVerifyIsTrue ==
    (/\ cb_outcome.kind = "returned"
     /\ vb.result = cb_outcome.result
     /\ ~tampered
     /\ vb_outcome.kind = "returned")
        => vb_outcome.value

\* C8: verify_backup on a result whose well-formed location names a key that
\* was never uploaded (storage reports NoSuchKey or 404) returns false and
\* does not raise.
C8_MissingObjectIsFalse ==
    (/\ verify_ended
     /\ _parse_backup_location(vb.result.location).err = NoError
     /\ ~storage_has(storage, vb.bucket, vb.key)
     /\ vb.error_code \in MissingCodes)
        => (vb_outcome.kind = "returned" /\ ~vb_outcome.value)

\* the backend answered 404 for a key nobody uploaded, and false came back
C8_Witness ==
    /\ pc = "vb_returned"
    /\ cb_outcome.kind = "none"
    /\ vb.error_code = "404"
    /\ ~storage_has(storage, vb.bucket, vb.key)
    /\ ~vb_outcome.value

\* the text of location after its first n characters
drop(location, n) ==
    SubSeq(location, n + 1, Len(location))

\* read by position: "s3:" in either case, "//", the bucket up to the next
\* "/", the key after it
uses_s3_scheme(location) ==
    Len(location) >= 3 /\ Lower(SubSeq(location, 1, 3)) = <<"s", "3", ":">>

bucket_of(location) ==
    LET rest == drop(location, 5)
        stop == IF \E i \in 1..Len(rest) : rest[i] = "/"
                THEN CHOOSE i \in 1..Len(rest) :
                        rest[i] = "/" /\ \A j \in 1..(i - 1) : rest[j] # "/"
                ELSE Len(rest) + 1
    IN  IF Len(location) >= 5 /\ SubSeq(location, 4, 5) = <<"/", "/">>
        THEN SubSeq(rest, 1, stop - 1)
        ELSE <<>>

key_of(location) ==
    LET rest == drop(location, 5 + Len(bucket_of(location)))
    IN  IF rest # <<>> /\ \E i \in 1..Len(rest) : rest[i] # "/"
        THEN drop(rest, (CHOOSE i \in 1..Len(rest) :
                            rest[i] # "/" /\ \A j \in 1..(i - 1) : rest[j] = "/") - 1)
        ELSE <<>>

malformed(location) ==
    \/ ~uses_s3_scheme(location)
    \/ bucket_of(location) = <<>>
    \/ key_of(location) = <<>>

\* C9: verify_backup raises an error, rather than returning a boolean, for
\* every location that does not use the s3 scheme, has an empty bucket or has
\* an empty key, and it does so before any object-storage fetch is issued.
C9_MalformedLocationRaises ==
    (pc \in {"vb_fetch", "vb_compare", "vb_returned", "vb_raised"}
        /\ malformed(vb.result.location))
        => /\ pc = "vb_raised"
           /\ vb_outcome.error.cls = "ValueError"
           /\ \A i \in 1..Len(calls) : calls[i].op # "get_object"

\* a location with the scheme and a bucket but no key was rejected
C9_Witness ==
    /\ pc = "vb_raised"
    /\ vb.result.location = S3Scheme \o <<"b", "/">>
    /\ vb_outcome.error.cls = "ValueError"

\* C10: when the object exists, verify_backup returns true if and only if the
\* hash recomputed from the fetched bytes equals result.checksum and the
\* reported content length equals result.size_bytes; a mismatch of either one
\* alone yields false.
C10_TrueIffChecksumAndSize ==
    (pc = "vb_returned" /\ vb.error_code = "") =>
        LET object == storage_get(storage, vb.bucket, vb.key)
        IN  /\ storage_has(storage, vb.bucket, vb.key)
            /\ vb_outcome.value <=>
                  (/\ _compute_checksum(object) = vb.result.checksum
                   /\ Len(object) = vb.result.size_bytes)

\* the checksum matched and the size did not: false
C10_Witness ==
    /\ pc = "vb_returned"
    /\ vb.error_code = ""
    /\ storage_has(storage, vb.bucket, vb.key)
    /\ _compute_checksum(storage_get(storage, vb.bucket, vb.key)) = vb.result.checksum
    /\ Len(storage_get(storage, vb.bucket, vb.key)) # vb.result.size_bytes
    /\ ~vb_outcome.value

\* C11: any object-storage error during verify_backup other than not-found
\* (invalid credentials, transient backend failure) propagates to the caller
\* as a failure; verify_backup never turns such an error into a false return.
C11_StorageErrorPropagates ==
    /\ (verify_ended /\ vb.error_code \in OtherClientErrors)
          => /\ vb_outcome.kind = "raised"
             /\ vb_outcome.error = Raise("ClientError", <<vb.error_code>>)
    /\ (pc = "vb_returned" /\ ~vb_outcome.value)
          => \/ vb.error_code \in {"NoSuchKey", "404"}
             \/ /\ vb.error_code = ""
                /\ storage_has(storage, vb.bucket, vb.key)
                /\ vb.content_length = Len(storage_get(storage, vb.bucket, vb.key))

\* the backend refused the credentials and the caller got the ClientError
C11_Witness ==
    /\ pc = "vb_raised"
    /\ vb.error_code = "AccessDenied"
    /\ vb_outcome.error.cls = "ClientError"

(***************************************************************************)
(* Properties of the preconditions and the parsing of create_backup.       *)
(***************************************************************************)
\* the bucket component of a destination prefix, read by position: after
\* "s3://" when the prefix begins with it, up to the next "/"
bucket_component(prefix) ==
    LET text == IF Falsy(prefix) THEN <<>>
                ELSE IF StartsWith(prefix, S3Scheme) THEN drop(prefix, 5)
                ELSE prefix
        stop == IF \E i \in 1..Len(text) : text[i] = "/"
                THEN CHOOSE i \in 1..Len(text) :
                        text[i] = "/" /\ \A j \in 1..(i - 1) : text[j] # "/"
                ELSE Len(text) + 1
    IN  SubSeq(text, 1, stop - 1)

\* the text after the bucket component and the "/" that ends it
path_component(prefix) ==
    LET text == IF Falsy(prefix) THEN <<>>
                ELSE IF StartsWith(prefix, S3Scheme) THEN drop(prefix, 5)
                ELSE prefix
    IN  drop(text, Len(bucket_component(prefix)) + 1)

\* create_backup was called with this request and is past its preconditions
create_called == request # NoRequest /\ pc # "cb_validate"

\* C12: when object-storage credentials are missing, or the server has no
\* non-empty IPv4 address, or the destination prefix has an empty bucket
\* component, create_backup fails before any network call: no SSH connection
\* is opened, no remote command is run and no object is uploaded.
C12_PreconditionsBeforeNetwork ==
    (/\ create_called
     /\ \/ access_key \in {None, <<>>}
        \/ secret_key \in {None, <<>>}
        \/ request.ipv4 \in {None, <<>>}
        \/ bucket_component(request.destination_prefix) = <<>>)
        => /\ cb_outcome.kind = "raised"
           /\ \A i \in 1..Len(calls) :
                 calls[i].op \notin {"connect", "exec_command", "open_sftp", "sftp.get", "upload_file"}
           /\ ~ssh_open
           /\ remote_files = {}
           /\ storage = InitialStorage

\* credentials and address were there, the bucket was not: rejected, no call made
C12_Witness ==
    /\ pc = "cb_raised"
    /\ access_key = <<"K">> /\ secret_key = <<"K">>
    /\ request.ipv4 = <<"1">>
    /\ request.destination_prefix = <<"/", "k">>
    /\ calls = <<>>

\* C13: destination-prefix parsing maps "s3://bucket/path" to (bucket, path),
\* "bucket/path" to the same pair, "bucket" alone to (bucket, ""), and rejects
\* an empty prefix, and any prefix whose bucket component is empty, with a
\* configuration error.  The pair of the s3:// form is the one both forms
\* are held to.
C13_PrefixFormsAgree ==
    (/\ create_called
     /\ access_key = <<"K">> /\ secret_key = <<"K">>
     /\ request.ipv4 = <<"1">>)
        => LET prefix == request.destination_prefix
               bucket == bucket_component(prefix)
               path   == path_component(prefix)
               same   == _parse_destination_prefix(S3Scheme \o bucket \o <<"/">> \o path)
           IN  IF bucket = <<>>
               THEN cb_outcome.kind = "raised" /\ cb_outcome.error.cls = "ValueError"
               ELSE /\ cb.bucket = bucket
                    /\ cb.key_prefix = same.key_prefix
                    /\ (path = <<>> \/ Head(path) # "/") => cb.key_prefix = path

calls_of(op) == {i \in 1..Len(calls) : calls[i].op = op}

\* C15: create_backup returns a BackupResult only when the upload completed,
\* and that result describes the uploaded object: location is
\* s3://<bucket>/<key> of the object written, checksum is the hash of exactly
\* the bytes stored there, and size_bytes is their length.
C15_ResultDescribesUpload ==
    (cb_outcome.kind = "returned" /\ ~tampered) =>
        \E object \in storage :
            /\ \E i \in calls_of("upload_file") : calls[i].arg = <<object.bucket, object.key>>
            /\ cb_outcome.result.location =
                  <<"s", "3", ":", "/", "/">> \o object.bucket \o <<"/">> \o object.key
            /\ cb_outcome.result.checksum = _compute_checksum(object.data)
            /\ cb_outcome.result.size_bytes = Len(object.data)

\* a two-byte archive was uploaded under a key prefix and described
C15_Witness ==
    /\ pc = "cb_returned"
    /\ cb_outcome.result.location = <<"s", "3", ":", "/", "/", "b", "/", "k", "/", "a">>
    /\ cb_outcome.result.size_bytes = 2
    /\ storage_has(storage, <<"b">>, <<"k", "/", "a">>)

\* s without the "/" characters at its end, read by position
without_trailing_slashes(s) ==
    LET last == IF \E i \in 1..Len(s) : s[i] # "/"
                THEN CHOOSE i \in 1..Len(s) :
                        s[i] # "/" /\ \A j \in (i + 1)..Len(s) : s[j] = "/"
                ELSE 0
    IN  SubSeq(s, 1, last)

\* C16: the destination object key is key_prefix with trailing slashes
\* stripped, followed by "/" and the archive file name, when key_prefix is
\* non-empty, and is exactly the archive file name when key_prefix is empty.
C16_ObjectKey ==
    \A i \in calls_of("upload_file") :
        calls[i].arg[2] =
            IF cb.key_prefix = <<>>
            THEN request.archive_name
            ELSE without_trailing_slashes(cb.key_prefix) \o <<"/">> \o request.archive_name

\* an upload under a key prefix that ended in a slash
C16_Witness ==
    /\ calls_of("upload_file") # {}
    /\ cb.key_prefix # <<>>
    /\ cb.key_prefix[Len(cb.key_prefix)] = "/"
    /\ cb.key = without_trailing_slashes(cb.key_prefix) \o <<"/">> \o request.archive_name

\* C17: the local staging file that create_backup transfers the archive into
\* is removed on every exit path of create_backup: after a successful upload
\* and after a failure of the transfer, the checksum or the upload.
C17_StagingRemoved ==
    pc \in {"cb_cleanup", "cb_close", "cb_returned", "cb_raised"} => ~staging.dir

\* the archive was transferred, the checksum failed, nothing is left locally
C17_Witness ==
    /\ pc = "cb_raised"
    /\ calls_of("sftp.get") # {}
    /\ Head(cb_outcome.error.msg) = "reading the staged file failed"
    /\ ~staging.dir

\* C18: within one create_backup call nothing is retried: the SSH connect is
\* attempted at most once, the archive command is issued at most once and the
\* upload is attempted at most once; a failure of any of them is surfaced to
\* the caller instead.
C18_NoRetry ==
    /\ Cardinality(calls_of("connect")) <= 1
    /\ Cardinality(tar_calls) <= 1
    /\ Cardinality(calls_of("upload_file")) <= 1
    /\ (create_ended /\ calls_of("connect") # {} /\ tar_calls = {})
          => (cb_outcome.kind = "raised" /\ failed_step(cb_outcome.error) = 1)
    /\ (create_ended /\ tar_calls # {} /\ calls_of("open_sftp") = {})
          => (cb_outcome.kind = "raised" /\ failed_step(cb_outcome.error) = 2)
    /\ (create_ended /\ calls_of("upload_file") # {} /\ ~tampered
            /\ ~storage_has(storage, cb.bucket, cb.key))
          => (cb_outcome.kind = "raised" /\ failed_step(cb_outcome.error) = 5)

\* the one upload failed and its error reached the caller
C18_Witness ==
    /\ pc = "cb_raised"
    /\ Cardinality(calls_of("upload_file")) = 1
    /\ Head(cb_outcome.error.msg) = "upload_file failed"


\* run has returned or raised
run_ended == ssh_run.pc \in {"run_raised", "run_returned"}

\* positions of the calls of op that run made on its client
run_calls(op) == {i \in DOMAIN ssh_run.calls : ssh_run.calls[i].op = op}

\* C19: ParamikoSSHService.run connects at most once and executes the command
\* at most once (no retry), the executed command being the quoted parts joined
\* by spaces; when it returns, the exit code was 0 and the value is the decoded
\* stdout; a non-zero exit code ends in an exception (RuntimeError carrying the
\* code and stderr when nothing else failed); and on every exit path after the
\* connection was established, including the one where exec_command raised,
\* close was called once on the client and the exception reaches the caller.
C19_RunContract ==
    /\ Cardinality(run_calls("connect")) <= 1
    /\ Cardinality(run_calls("exec_command")) <= 1
    /\ \A i \in run_calls("exec_command") : ssh_run.calls[i].arg = join_quoted(ssh_run.command)
    /\ run_ended => Cardinality(run_calls("connect")) = 1
    /\ ssh_run.pc = "run_returned" =>
          /\ ssh_run.exit_code = 0
          /\ ssh_run.outcome.kind = "returned"
          /\ ssh_run.outcome.value = decode(ssh_run.stdout)
          /\ Cardinality(run_calls("exec_command")) = 1
    /\ (run_ended /\ ssh_run.exit_code \notin {-1, 0}) =>
          /\ ssh_run.outcome.kind = "raised"
          /\ ssh_run.pending = NoError =>
                ssh_run.outcome.error =
                    Raise("RuntimeError",
                          <<"Remote command failed", ToString(ssh_run.exit_code)>>
                              \o decode(ssh_run.stderr))
    /\ (run_ended /\ ssh_run.session # "none") => Cardinality(run_calls("close")) = 1
    /\ (run_ended /\ ssh_run.session # "none" /\ ~ssh_run.streams) =>
          /\ ssh_run.outcome.kind = "raised"
          /\ ssh_run.outcome.error = ssh_run.pending
          /\ ssh_run.pending # NoError
    /\ ssh_run.session = "none" => run_calls("exec_command") = {}

\* exec_command raised on an established session: run closed the client and
\* raised the same exception
C19_Witness ==
    /\ ssh_run.pc = "run_raised"
    /\ ssh_run.session # "none"
    /\ ~ssh_run.streams
    /\ run_calls("exec_command") # {}
    /\ run_calls("close") # {}

\* update_record has returned or raised
update_ended == dns.pc \in {"update_raised", "update_returned"}

\* the body reads OK in some letter case, with only whitespace around it
is_ok(text) ==
    \E a \in 1..Len(text) :
        /\ a + 1 <= Len(text)
        /\ text[a] \in {"o", "O"}
        /\ text[a + 1] \in {"k", "K"}
        /\ \A i \in 1..Len(text) : i \notin {a, a + 1} => text[i] \in Whitespace

\* C20: DuckDNSProvider.update_record issues exactly one request per call; the
\* request carries domains, token and ip, and clear=true exactly when the given
\* IPv4 is empty (None or ""); the call returns normally only when the response
\* body is OK in any letter case with surrounding whitespace ignored, and it
\* raises RuntimeError for every other body and for every RequestException of
\* the request.
C20_UpdateRecordContract ==
    /\ Len(dns.requests) <= 1
    /\ update_ended => Len(dns.requests) = 1
    /\ \A i \in DOMAIN dns.requests :
         LET params == dns.requests[i].params
         IN  /\ {"domains", "token", "ip"} \subseteq DOMAIN params
             /\ params["domains"] = dns.host
             /\ params["ip"] = dns.ipv4
             /\ "clear" \in DOMAIN params <=> dns.ipv4 \in {None, <<>>}
             /\ "clear" \in DOMAIN params => params["clear"] = <<"true">>
    /\ dns.pc = "update_returned" =>
          /\ dns.failure = "none"
          /\ is_ok(dns.text)
          /\ dns.outcome.kind = "returned"
    /\ (update_ended /\ dns.failure = "none") =>
          IF is_ok(dns.text)
          THEN dns.pc = "update_returned"
          ELSE /\ dns.outcome.kind = "raised"
               /\ dns.outcome.error.cls = "RuntimeError"
    /\ (update_ended /\ dns.failure \in RequestExceptions) =>
          dns.outcome = [kind |-> "raised",
                         error |-> Raise("RuntimeError", <<"DuckDNS request failed">>)]

\* a record was cleared: no address given, clear=true sent, and a body that is
\* OK only after stripping and upper-casing was accepted
C20_Witness ==
    /\ dns.pc = "update_returned"
    /\ dns.ipv4 = <<>>
    /\ Len(dns.requests) = 1
    /\ "clear" \in DOMAIN dns.requests[1].params
    /\ dns.text = <<" ", "o", "K", "\n">>

(***************************************************************************)
(* The remote session of create_backup.                                    *)
(***************************************************************************)
\* ssh_client.connect of the running create_backup returned
connect_succeeded ==
    /\ calls_of("connect") # {}
    /\ ~(cb_outcome.kind = "raised" /\ Head(cb_outcome.error.msg) = "connect failed")

\* the command lines sent with exec_command, in order
remote_commands ==
    [i \in 1..Cardinality(calls_of("exec_command")) |->
        calls[CHOOSE j \in calls_of("exec_command") :
                 Cardinality({k \in calls_of("exec_command") : k <= j}) = i].arg]

\* /tmp/<archive_name> of the request
archive_path == <<"/", "t", "m", "p", "/">> \o request.archive_name

\* C24: in every create_backup run where the SSH connection succeeds, exactly
\* two remote commands are issued over the session, in this order: the sudo
\* tar command writing /tmp/<archive_name>, then the remove of that same
\* path; no other remote command is ever issued, and none without a session.
C24_TwoRemoteCommands ==
    /\ Len(remote_commands) <= 2
    /\ ~connect_succeeded => remote_commands = <<>>
    /\ (create_ended /\ connect_succeeded) => Len(remote_commands) = 2
    /\ Len(remote_commands) >= 1 =>
          /\ Head(remote_commands[1]) = "sudo tar czf "
          /\ SubSeq(remote_commands[1], 2, 1 + Len(archive_path)) = archive_path
          /\ remote_commands[1][Len(remote_commands[1])] = " ."
    /\ Len(remote_commands) = 2 => remote_commands[2] = <<"rm -f ">> \o archive_path

\* a backup was made: tar and rm were the two commands of the session
C24_Witness ==
    /\ pc = "cb_returned"
    /\ Len(remote_commands) = 2
    /\ cleanup.close = "closed"

\* C25: during the cleanup of create_backup the remote delete is attempted
\* first and the session close second, and the close is attempted exactly
\* once on every exit path after a successful connect, also when the remote
\* delete raises.
C25_DeleteThenCloseOnce ==
    /\ Cardinality(calls_of("close")) <= 1
    /\ \A i \in calls_of("close") :
         /\ \E j \in rm_calls : j < i
         /\ \A j \in calls_of("exec_command") : j < i
    /\ (create_ended /\ connect_succeeded) => Cardinality(calls_of("close")) = 1
    /\ (create_ended /\ cleanup.rm = "raised") => Cardinality(calls_of("close")) = 1
    /\ ~connect_succeeded => calls_of("close") = {}

\* the remote delete raised and the session was closed all the same
C25_Witness ==
    /\ create_ended
    /\ cleanup.rm = "raised"
    /\ cleanup.close = "closed"
    /\ calls_of("close") # {}

\* C29: for every request on which create_backup succeeds, the (bucket, key)
\* pair that verify_backup derives from result.location equals the pair the
\* object was uploaded to, for every accepted destination prefix (bare
\* prefixes whose key part starts with a slash included) and archive name.
C29_VerifyAddressesUploadedObject ==
    (/\ cb_outcome.kind = "returned"
     /\ vb.result = cb_outcome.result
     /\ pc \in {"vb_fetch", "vb_compare", "vb_returned", "vb_raised"})
        => \E i \in calls_of("upload_file") : calls[i].arg = <<vb.bucket, vb.key>>

(***************************************************************************)
(* Properties of the delete command.                                       *)
(***************************************************************************)
\* the command called neither create_backup nor verify_backup
no_backup_call ==
    /\ request = NoRequest
    /\ calls = <<>>
    /\ vb = NoVerify
    /\ pc = "idle"

\* C27: the delete command calls provider.delete_server only with the
\* identifier of a server that list_servers returned under the filter
\* Type=Ephemeral (the selected server, never one with another label); a
\* --server-id that matches none of those servers, or an empty list, ends the
\* command with exit code 1 and without any backup or delete call.
C27_OnlyListedEphemeralDeleted ==
    /\ \A i \in DOMAIN cmd.delete_calls :
         /\ cmd.delete_calls[i] = cmd.server.identifier
         /\ cmd.server.label_type = "Ephemeral"
         /\ \/ cmd.server = SampleInstance
            \/ \E j \in DOMAIN cloud.servers : cloud.servers[j] = cmd.server
            \/ cmd.server.identifier \in {cloud.delete_requests[j] : j \in DOMAIN cloud.delete_requests}
    /\ \A i \in DOMAIN cloud.delete_requests :
         /\ cloud.delete_requests[i] = cmd.server.identifier
         /\ cmd.server.label_type = "Ephemeral"
    /\ (cmd.server # NoServer /\ ~Falsy(cmd.server_id)) => cmd.server.identifier = cmd.server_id
    /\ (dpc # "select" /\ cmd.server = NoServer) =>
          /\ dpc = "done"
          /\ cmd.exit_code = 1
          /\ cmd.delete_calls = <<>>
          /\ cloud.delete_requests = <<>>
          /\ no_backup_call
    /\ (dpc # "select" /\ ~Falsy(cmd.server_id)
            /\ \A j \in DOMAIN cloud.servers :
                  cloud.servers[j].identifier = cmd.server_id
                      => cloud.servers[j].label_type # "Ephemeral")
          => (cmd.server = NoServer \/ cloud.delete_requests # <<>>)

\* --server-id named the server labelled Persistent: exit 1, nothing called
C27_Witness ==
    /\ dpc = "done"
    /\ cmd.server_id = ServerP.identifier
    /\ cloud.servers = <<ServerE1, ServerE2, ServerP>>
    /\ cmd.exit_code = 1
    /\ cmd.delete_calls = <<>>

non_blank(s) == \E i \in DOMAIN s : s[i] \notin Whitespace

\* v is s without the whitespace around it
trimmed(v, s) ==
    /\ v # <<>>
    /\ v[1] \notin Whitespace
    /\ v[Len(v)] \notin Whitespace
    /\ \E a \in 1..Len(s) :
         /\ SubSeq(s, a, a + Len(v) - 1) = v
         /\ \A i \in 1..Len(s) : (i < a \/ i >= a + Len(v)) => s[i] \in Whitespace

\* the options the ini file gives for a field, in the section of that field
ini_values(field) ==
    {o.raw : o \in {x \in conf.ini.options :
        /\ conf.ini.exists
        /\ conf.ini.readable
        /\ x.field = field
        /\ x.section = IF field = "hetzner_api_token"
                       THEN "ephetzner.secrets" ELSE "ephetzner"}}

\* C22: AppConfig.from_sources resolves each field on its own: a non-blank
\* environment value (trimmed) overrides the ini value, the ini value
\* (trimmed) is used when the environment variable is unset or blank, and the
\* field is None when neither source provides a non-blank value.
C22_EnvOverIniOverNone ==
    conf.pc = "fs_returned" =>
        /\ DOMAIN conf.result = {"hetzner_api_token", "s3_endpoint"}
        /\ \A field \in DOMAIN conf.result :
             LET env_value == conf.env[IF field = "hetzner_api_token"
                                       THEN "HETZNER_API_TOKEN" ELSE "S3_ENDPOINT"]
                 env_given == env_value # None /\ non_blank(env_value)
                 ini_given == \E raw \in ini_values(field) : non_blank(raw)
             IN  /\ env_given => trimmed(conf.result[field], env_value)
                 /\ (~env_given /\ ini_given) =>
                        \E raw \in ini_values(field) : trimmed(conf.result[field], raw)
                 /\ (~env_given /\ ~ini_given) => conf.result[field] = None

\* one field came from the environment although the ini file had it, the
\* other from the ini file because its variable was blank
C22_Witness ==
    /\ conf.pc = "fs_returned"
    /\ conf.env["HETZNER_API_TOKEN"] = <<" ", "e", " ">>
    /\ conf.env["S3_ENDPOINT"] = <<" ">>
    /\ conf.result["hetzner_api_token"] = <<"e">>
    /\ conf.result["s3_endpoint"] = <<"i">>
    /\ Cardinality(conf.ini.options) = 2

\* the keys of the account, before the call, whose stored text equals the
\* requested key once both are stripped
existing_keys ==
    {hz.keys_before[i] : i \in {j \in DOMAIN hz.keys_before :
        /\ ~Falsy(hz.keys_before[j].public_key)
        /\ strip(hz.keys_before[j].public_key) = strip(hz.request.ssh_public_key)}}

\* the calls of op made on the key API, the calls made on client.servers
key_calls_of(op) ==
    SelectSeq(hz.key_calls, LAMBDA c : c.op = op)

server_calls_of(op) ==
    SelectSeq(hz.server_calls, LAMBDA c : c.op = op)

\* C21: once create_server, asked for a non-blank SSH key, has called
\* client.servers.create: if the account already held a key with that text,
\* that key is attached and no key was created; otherwise exactly one key
\* with the requested text was created and it is attached.
C21_LookupOrCreate ==
    (/\ server_calls_of("create") # <<>>
     /\ ~Falsy(hz.request.ssh_public_key)
     /\ strip(hz.request.ssh_public_key) # <<>>)
    => LET attached == server_calls_of("create")[1].arg.ssh_keys
           created == key_calls_of("create")
       IN  IF existing_keys # {}
           THEN /\ Len(attached) = 1
                /\ attached[1] \in existing_keys
                /\ created = <<>>
           ELSE /\ Len(created) = 1
                /\ created[1].arg.public_key = strip(hz.request.ssh_public_key)
                /\ attached = <<created[1].arg>>

\* the same, for a client that has the key API and whose key calls succeed
C21_WithWorkingKeyApi ==
    (/\ hz.has_key_api
     /\ hz.listed = hz.keys_before
     /\ key_calls_of("get_by_name") = <<>>
     /\ Len(hz.keys) = Len(hz.keys_before) + Len(key_calls_of("create")))
    => C21_LookupOrCreate

\* C23: delete_server looks the server up before anything else, by
\* get_by_id when int(server_id) succeeds and by get_by_name otherwise; it
\* calls client.servers.delete at most once, only after the lookup and with
\* the server the lookup returned; once it has ended, a server that was
\* found has had exactly one delete call, and a server that was not found,
\* or whose lookup failed, has had none and the call raised RuntimeError.
C23_ResolveThenDeleteOnce ==
    hz.server_id # <<>> =>
        LET deletes == server_calls_of("delete")
            by == IF is_numeric(hz.server_id) THEN "get_by_id" ELSE "get_by_name"
            ended == hz.pc \in {"hz_returned", "hz_raised"}
        IN  /\ Len(deletes) <= 1
            /\ Len(cloud.delete_requests) = Len(deletes)
            /\ hz.server_calls # <<>> => hz.server_calls[1] = Call(by, hz.server_id)
            /\ deletes # <<>> =>
                 /\ Len(hz.server_calls) = 2
                 /\ hz.resource # NoServer
                 /\ deletes[1].arg = hz.resource.identifier
                 /\ IF is_numeric(hz.server_id)
                    THEN hz.resource.identifier = hz.server_id
                    ELSE hz.resource.name = hz.server_id
            /\ (ended /\ hz.resource # NoServer) => Len(deletes) = 1
            /\ (ended /\ hz.resource = NoServer) =>
                 /\ deletes = <<>>
                 /\ hz.outcome.kind = "raised"
                 /\ hz.outcome.error.cls = "RuntimeError"
            /\ hz.pc = "hz_returned" => Len(deletes) = 1

\* a server named b was resolved by name and deleted by its identifier
C23_Witness ==
    /\ hz.pc = "hz_returned"
    /\ hz.server_id = <<"b">>
    /\ hz.server_calls = <<Call("get_by_name", <<"b">>), Call("delete", <<"3">>)>>
    /\ cloud.delete_requests = <<<<"3">>>>

\* C26: in the create command a DNS update is started only once
\* create_server has returned a server; when create_server failed the
\* command ends with exit code 1 and no DNS request; when the DNS update
\* (or the building of its provider) failed, the server is still in the
\* account and the command ends with exit code 0.
C26_DnsAfterProvisioningAndHarmless ==
    crt.pc # "off" =>
        LET created == \E i \in DOMAIN cloud.servers : cloud.servers[i] = crt.server
            dns_failed == dns.pc = "update_raised" \/ crt.warned
        IN  /\ dns # NoUpdate =>
                 /\ hz.pc = "hz_returned"
                 /\ crt.server = hz.outcome.server
                 /\ created
            /\ hz.pc = "hz_raised" => dns = NoUpdate
            /\ (crt.pc = "done" /\ hz.pc = "hz_raised") => crt.exit_code = 1
            /\ dns_failed => created
            /\ (crt.pc = "done" /\ dns_failed) => crt.exit_code = 0
            /\ (crt.pc = "done" /\ hz.pc = "hz_returned") => (crt.exit_code = 0 /\ created)

\* the server was created, the DNS update failed, the command ended with 0
C26_Witness ==
    /\ crt.pc = "done"
    /\ hz.pc = "hz_returned"
    /\ dns.pc = "update_raised"
    /\ crt.warned
    /\ crt.exit_code = 0
    /\ crt.server \in {cloud.servers[i] : i \in DOMAIN cloud.servers}

=============================================================================
